---- MODULE Spec2Model ----
(***************************************************************************)
(* Movement synchronisation of MiniScape's GameCanvas component.           *)
(*                                                                         *)
(* The repository holds two versions of the component:                     *)
(*   src/frontend/components/GameCanvas.tsx   ("frontend")                 *)
(*   src/components/GameCanvas.tsx            ("legacy")                   *)
(* and the movement hook src/frontend/hooks/usePlayerMovement.ts ("hook"). *)
(* The variable impl records which of them is mounted; every handler is    *)
(* modelled once per version that defines it.  The model follows one       *)
(* mounted instance of the component's effect: its socket handlers, its    *)
(* cleanup interval and its animate loop.                                  *)
(*                                                                         *)
(* Units.  x and z are held in hundredths of a world unit, y in            *)
(* thousandths, times in milliseconds; the constants of the program are    *)
(* written in these units.  The arithmetic of the handlers is exact on the *)
(* values of the model, with two exceptions that are rounded to the        *)
(* hundredth: the diagonal step of the frontend (Normalized) and the       *)
(* capped step of the anomaly guard (Capped).  A halving that the          *)
(* resolution of the remote positions cannot represent is not taken        *)
(* (Halvable).  NaN stands for the IEEE-754 not-a-number.                  *)
(***************************************************************************)
EXTENDS Integers, Sequences, FiniteSets, TLC

VARIABLES
    impl,            \* which component version is mounted
    playersRef,      \* playersRef.current: Map<id, mesh>      (id -> oid)
    scene,           \* the player meshes that are children of the scene (oids)
    meshes,          \* the mesh objects: oid -> [playerId, name, x, y, z]
    playerRef,       \* the local mesh: [playerId, x, y, z]
    pendingLookups,  \* getPlayerData requests whose callback has not run
    isConnected,     \* the isConnected state read by the handlers
    lastEvent,       \* the handler that ran last, with its argument (history)
    now,             \* Date.now() at the frame being run
    frame,           \* the number of frames run
    pc,              \* the position in animate(): "move", then "send"
    lastSentPosition,\* lastSentPosition.current
    lastSendTime,    \* lastSendTime.current
    movementChanged, \* movementChanged.current
    positionHistory, \* positionHistory.current: samples [x, z, time]
    currentZone,     \* the currentZone state
    zoneNotices,     \* the labels given to setCurrentZone (history)
    socketReady,     \* isSocketReady(), socket.connected
    sendsInFlight,   \* sendPositionUpdate calls suspended at await getSocket()
    reports,         \* the playerMove events emitted (history)
    lastEval,        \* what the last run of sendPositionUpdate saw (history)
    isJumping,       \* isJumping.current
    jumpVelocity,    \* jumpVelocity.current, thousandths per frame
    mounted,         \* the effect has run and its cleanup has not
    setupPending,    \* setupSocketListeners is suspended at await getSocket()
    timers           \* the intervals set and not cleared

effectVars == <<mounted, setupPending, timers>>
recVars == <<playersRef, scene, meshes, pendingLookups, lastEvent>>
loopVars == <<now, frame, pc, lastSentPosition, lastSendTime, movementChanged,
              positionHistory, currentZone, zoneNotices, socketReady,
              sendsInFlight, reports, lastEval, isJumping, jumpVelocity>>

-----------------------------------------------------------------------------
(* Constants of the program, in the units of the model *)

MOVEMENT_SPEED == 15
minX == -5000
maxX == 5000
minZ == -5000
maxZ == 5000
LARGE_MOVEMENT_THRESHOLD == 500
SEND_INTERVAL_halved == 100 \div 2
\* an interval ten times as long
SEND_INTERVAL_tenfold == 100 * 10
SEND_INTERVAL == 100
MIN_CHANGE == 1
MAX_HISTORY_LENGTH_doubled == 5 * 2
MAX_HISTORY_LENGTH == 5
NaN == 999999
PI == 3142

LocalId == "me"
RemoteIds == {"p1", "p2"}
Ids == RemoteIds \cup {LocalId}
NoId == "undefined"

(* Bounds of the model *)
MaxPending == 1

Names == {"ann"}
GeneratedName(id) == <<"Player-", id>>

Pos(x, y, z) == [x |-> x, y |-> y, z |-> z]

\* Positions carried by inbound events.  Origin and Far are 10 units apart
\* (their midpoint is 5 units from both), Outside is beyond the bounds,
\* Malformed has a non-finite coordinate.
Origin == Pos(0, 1000, 0)
Far == Pos(800, 1300, 600)
Outside == Pos(-6000, 1000, 0)
Malformed == Pos(NaN, 1000, 0)
Beyond == Pos(1000, 1000, 6000)

\* The positions the inbound events carry, per id: in move events, and in
\* the player records of rosters, joins and lookup responses.  Lifecycle
\* exercises the three ids with few positions, Positions one remote id with
\* every kind of position.
LifecycleMoves == [i \in Ids |-> {Far}]
LifecyclePlayers == [i \in Ids |-> IF i = LocalId THEN {Beyond} ELSE {Origin}]
PositionsMoves == [i \in {"p1"} |-> {Origin, Far, Outside, Malformed}]
PositionsPlayers ==
    [i \in {"p1", LocalId} |-> IF i = LocalId THEN {Beyond} ELSE {Origin, Outside}]

Player(id, name, p) == [id |-> id, name |-> name, x |-> p.x, y |-> p.y, z |-> p.z]

-----------------------------------------------------------------------------
(* Arithmetic *)

Min(a, b) == IF a < b THEN a ELSE b
Max(a, b) == IF a > b THEN a ELSE b

\* the value as it is, inside the bounds or not
Clamp_open(lo, hi, v) == v

\* Math.max(lo, Math.min(hi, v)): NaN if v is NaN
Clamp(lo, hi, v) == IF v = NaN THEN NaN ELSE Max(lo, Min(hi, v))

\* Math.sqrt(Math.pow(ax - bx, 2) + Math.pow(az - bz, 2)) > t, false on NaN
DistanceExceeds(ax, az, bx, bz, t) ==
    IF ax = NaN \/ az = NaN \/ bx = NaN \/ bz = NaN THEN FALSE
    ELSE (ax - bx) * (ax - bx) + (az - bz) * (az - bz) > t * t

\* a quarter of the way in the place of half
Midpoint_quarter(cur, target) ==
    IF cur = NaN \/ target = NaN THEN NaN ELSE cur + (target - cur) \div 4

\* cur + (target - cur) * 0.5
Midpoint(cur, target) ==
    IF cur = NaN \/ target = NaN THEN NaN ELSE cur + (target - cur) \div 2

\* the model keeps the midpoints of the remote entities on whole units
Halvable(cur, target) ==
    cur = NaN \/ target = NaN \/ (target - cur) % 200 = 0

-----------------------------------------------------------------------------
(* The registry, the scene graph and the mesh objects *)

EmptyMap == [k \in {} |-> k]
Range(f) == {f[k] : k \in DOMAIN f}
Remove(f, k) == [j \in DOMAIN f \ {k} |-> f[j]]
Put(f, k, v) == [j \in DOMAIN f \cup {k} |-> IF j = k THEN v ELSE f[j]]

\* a world: the registry, the scene's player meshes, and the mesh objects
World(reg, sc, ms) == [reg |-> reg, scene |-> sc, meshes |-> ms]

\* the objects no longer referenced by the registry or the scene are garbage
Collect(w) ==
    World(w.reg, w.scene, [o \in w.scene \cup Range(w.reg) |-> w.meshes[o]])

CurrentWorld == World(playersRef, scene, meshes)

\* new THREE.Mesh(...): an object distinct from every object that exists
FreshOid(id, existing) ==
    <<id, CHOOSE k \in 0..Cardinality(existing) :
              /\ <<id, k>> \notin existing
              /\ \A j \in 0..(k - 1) : <<id, j>> \in existing>>

MeshOf(player) ==
    [playerId |-> player.id, name |-> player.name,
     x |-> player.x, y |-> player.y, z |-> player.z]

\* scene.traverse: the objects of the scene whose userData.playerId is id
SceneObjectsOf(w, id) == {o \in w.scene : w.meshes[o].playerId = id}

\* createPlayerMesh without the removal of the meshes the id already has
createPlayerMesh_keeping(w, player) ==
    IF player.id = LocalId THEN w
    ELSE LET o == FreshOid(player.id, DOMAIN w.meshes)
         IN World(Put(w.reg, player.id, o),
                  w.scene \cup {o},
                  Put(w.meshes, o, MeshOf(player)))

\* frontend createPlayerMesh
createPlayerMesh(w, player) ==
    IF player.id = LocalId THEN w
    ELSE LET existingMeshes ==
                 (IF player.id \in DOMAIN w.reg THEN {w.reg[player.id]} ELSE {})
                     \cup SceneObjectsOf(w, player.id)
             o == FreshOid(player.id, DOMAIN w.meshes)
         IN World(Put(w.reg, player.id, o),
                  (w.scene \ existingMeshes) \cup {o},
                  Put(w.meshes, o, MeshOf(player)))

\* legacy createPlayerMesh
createPlayerMesh_legacy(w, player) ==
    LET o == FreshOid(player.id, DOMAIN w.meshes)
    IN World(Put(w.reg, player.id, o),
             w.scene \cup {o},
             Put(w.meshes, o, MeshOf(player)))

\* cleanupPlayerMeshes without the removal of the meshes of untracked ids
cleanupPlayerMeshes_untracked(w) ==
    LET keep == {o \in w.scene :
                    LET id == w.meshes[o].playerId
                    IN id \in DOMAIN w.reg => w.reg[id] = o}
    IN World(w.reg, keep, w.meshes)

\* frontend cleanupPlayerMeshes
cleanupPlayerMeshes(w) ==
    LET validPlayerIds == DOMAIN w.reg \cup {LocalId}
        keep == {o \in w.scene :
                    LET id == w.meshes[o].playerId
                    IN /\ id \in validPlayerIds
                       /\ id # LocalId
                       /\ w.reg[id] = o}
    IN World(w.reg, keep, w.meshes)

-----------------------------------------------------------------------------
(* Inbound events *)

NoPos == Pos(0, 0, 0)
NoPlayer == Player(NoId, "", NoPos)

\* the remote ids in the game as the server's events tell it: those of the
\* last roster, with the ids that joined, moved or were found by a lookup
\* since, without those that left or that a lookup did not find
Announced(valid, type, id, found, ids) ==
    CASE type = "initPlayers" -> ids \ {LocalId}
      [] type \in {"playerJoined", "playerMoved"} -> valid \cup ({id} \ {LocalId})
      [] type = "playerLeft" -> valid \ {id}
      [] type = "getPlayerData" -> IF found THEN valid \cup {id} ELSE valid \ {id}
      [] OTHER -> valid

\* the event handled last: its kind, the id and position it carried, whether
\* it carried player data, the ids of its roster (for a cleanup pass, the ids
\* whose meshes it removed), whether the id was in the registry when the
\* event arrived, the list a sync check carried with the list it answered,
\* and the remote ids the server's events have so far said are in the game
Ev(type, id, pos, found, ids) ==
    [type |-> type, id |-> id, pos |-> pos, found |-> found, ids |-> ids,
     known |-> id \in DOMAIN playersRef, list |-> <<>>, reply |-> <<>>,
     valid |-> Announced(lastEvent.valid, type, id, found, ids)]

PosOf(r) == Pos(r.x, r.y, r.z)

Install(w) ==
    LET c == Collect(w)
    IN /\ playersRef' = c.reg
       /\ scene' = c.scene
       /\ meshes' = c.meshes

\* the rosters a snapshot can carry: some of the ids, each with a position
Rosters(players) ==
    UNION {{r \in [S -> UNION Range(players)] : \A i \in S : r[i] \in players[i]} :
              S \in SUBSET DOMAIN players}

RosterPlayer(roster, id) == Player(id, "ann", roster[id])

SetLocal(player) ==
    [playerId |-> player.id, x |-> player.x, y |-> player.y, z |-> player.z,
     rotation |-> playerRef.rotation]

RECURSIVE CreateAll(_, _, _)
\* players.forEach(player => createPlayerMesh(player)) over the ids of todo
CreateAll(w, roster, todo) ==
    IF todo = {} THEN w
    ELSE LET id == CHOOSE i \in todo : TRUE
         IN CreateAll(createPlayerMesh(w, RosterPlayer(roster, id)), roster, todo \ {id})

RECURSIVE CreateMissing_legacy(_, _, _)
\* players.forEach(player => { if (!playersRef.current.has(player.id)) ... })
CreateMissing_legacy(w, roster, todo) ==
    IF todo = {} THEN w
    ELSE LET id == CHOOSE i \in todo : TRUE
             w1 == IF id \in DOMAIN w.reg THEN w
                   ELSE createPlayerMesh_legacy(w, RosterPlayer(roster, id))
         IN CreateMissing_legacy(w1, roster, todo \ {id})

\* frontend socket.on('initPlayers')
initPlayers(roster) ==
    /\ impl = "frontend"
    /\ Install(CreateAll(cleanupPlayerMeshes(CurrentWorld), roster,
                         DOMAIN roster \ {LocalId}))
    /\ playerRef' = IF LocalId \in DOMAIN roster
                    THEN SetLocal(RosterPlayer(roster, LocalId))
                    ELSE playerRef
    /\ lastEvent' = Ev("initPlayers", NoId, NoPos, FALSE, DOMAIN roster)
    /\ UNCHANGED <<impl, effectVars, loopVars, pendingLookups, isConnected>>

\* legacy socket.on('initPlayers')
initPlayers_legacy(roster) ==
    /\ impl = "legacy"
    /\ Install(CreateMissing_legacy(CurrentWorld, roster, DOMAIN roster))
    /\ lastEvent' = Ev("initPlayers", NoId, NoPos, FALSE, DOMAIN roster)
    /\ UNCHANGED <<impl, effectVars, loopVars, playerRef, pendingLookups, isConnected>>

\* frontend socket.on('playerJoined')
playerJoined(player) ==
    /\ impl = "frontend"
    /\ IF player.id = LocalId
       THEN /\ playerRef' = SetLocal(player)
            /\ UNCHANGED <<playersRef, scene, meshes>>
       ELSE LET w == CurrentWorld
                w1 == IF player.id \in DOMAIN w.reg
                      THEN World(Remove(w.reg, player.id),
                                 w.scene \ {w.reg[player.id]}, w.meshes)
                      ELSE w
            IN /\ Install(createPlayerMesh(w1, player))
               /\ UNCHANGED playerRef
    /\ lastEvent' = Ev("playerJoined", player.id, PosOf(player), TRUE, {})
    /\ UNCHANGED <<impl, effectVars, loopVars, pendingLookups, isConnected>>

\* legacy socket.on('playerJoined')
playerJoined_legacy(player) ==
    /\ impl = "legacy"
    /\ LET w == CurrentWorld
       IN IF player.id \notin DOMAIN w.reg
          THEN Install(createPlayerMesh_legacy(w, player))
          ELSE Install(World(w.reg, w.scene,
                             Put(w.meshes, w.reg[player.id],
                                 [w.meshes[w.reg[player.id]] EXCEPT
                                     !.name = player.name, !.x = player.x,
                                     !.y = player.y, !.z = player.z])))
    /\ lastEvent' = Ev("playerJoined", player.id, PosOf(player), TRUE, {})
    /\ UNCHANGED <<impl, effectVars, loopVars, playerRef, pendingLookups, isConnected>>

\* the part of playerLeft both versions share: drop the tracked mesh
RemoveTracked(w, playerId) ==
    IF playerId \in DOMAIN w.reg
    THEN World(Remove(w.reg, playerId), w.scene \ {w.reg[playerId]}, w.meshes)
    ELSE w

\* frontend socket.on('playerLeft')
playerLeft(playerId) ==
    /\ impl = "frontend"
    /\ IF playerId = LocalId
       THEN UNCHANGED <<playersRef, scene, meshes>>
       ELSE Install(RemoveTracked(CurrentWorld, playerId))
    /\ lastEvent' = Ev("playerLeft", playerId, NoPos, FALSE, {})
    /\ UNCHANGED <<impl, effectVars, loopVars, playerRef, pendingLookups, isConnected>>

\* legacy socket.on('playerLeft')
playerLeft_legacy(playerId) ==
    /\ impl = "legacy"
    /\ Install(RemoveTracked(CurrentWorld, playerId))
    /\ lastEvent' = Ev("playerLeft", playerId, NoPos, FALSE, {})
    /\ UNCHANGED <<impl, effectVars, loopVars, playerRef, pendingLookups, isConnected>>

\* playerIds.filter(id => playersRef.current.has(id)): the tracked ids
missingPlayerIds_tracked(playerIds, reg) ==
    SelectSeq(playerIds, LAMBDA id : id \in DOMAIN reg)

\* playerIds.filter(id => !playersRef.current.has(id))
missingPlayerIds(playerIds, reg) ==
    SelectSeq(playerIds, LAMBDA id : id \notin DOMAIN reg)

\* a sync check that also forgets the tracked ids the list lacks
checkPlayersSync_pruning(playerIds) ==
    /\ impl = "frontend"
    /\ lastEvent' = [Ev("checkPlayersSync", NoId, NoPos, FALSE, {}) EXCEPT
                         !.list = playerIds,
                         !.reply = missingPlayerIds(playerIds, playersRef)]
    /\ playersRef' = [id \in DOMAIN playersRef \cap Range(playerIds) |-> playersRef[id]]
    /\ UNCHANGED <<impl, effectVars, loopVars, scene, meshes, playerRef,
                   pendingLookups, isConnected>>

\* frontend socket.on('checkPlayersSync'): answers with the missing ids
checkPlayersSync(playerIds) ==
    /\ impl = "frontend"
    /\ lastEvent' = [Ev("checkPlayersSync", NoId, NoPos, FALSE, {}) EXCEPT
                         !.list = playerIds,
                         !.reply = missingPlayerIds(playerIds, playersRef)]
    /\ UNCHANGED <<impl, effectVars, loopVars, playersRef, scene, meshes, playerRef,
                   pendingLookups, isConnected>>

\* the incoming position clamped to the world bounds
validX(data) == Clamp(minX, maxX, data.x)
validZ(data) == Clamp(minZ, maxZ, data.z)

\* distanceToNewPos > LARGE_MOVEMENT_THRESHOLD
IsLargeMove(m, data) ==
    DistanceExceeds(validX(data), validZ(data), m.x, m.z, LARGE_MOVEMENT_THRESHOLD)

\* playerMoved for a tracked mesh m: halfway on a large change, else the target
applyMove(m, data) ==
    IF IsLargeMove(m, data)
    THEN [m EXCEPT !.x = Midpoint(m.x, validX(data)), !.y = data.y,
                   !.z = Midpoint(m.z, validZ(data))]
    ELSE [m EXCEPT !.x = validX(data), !.y = data.y, !.z = validZ(data)]

\* the midpoints of a large move are values of the model
Representable(m, data) ==
    IsLargeMove(m, data) =>
        Halvable(m.x, validX(data)) /\ Halvable(m.z, validZ(data))

Request(id, data) == [id |-> id, x |-> data.x, y |-> data.y, z |-> data.z]

\* frontend socket.on('playerMoved')
playerMoved(id, data) ==
    /\ impl = "frontend"
    /\ IF id = LocalId
       THEN UNCHANGED <<playersRef, scene, meshes, pendingLookups>>
       ELSE IF id \in DOMAIN playersRef
       THEN /\ Representable(meshes[playersRef[id]], data)
            /\ meshes' = [meshes EXCEPT ![playersRef[id]] = applyMove(@, data)]
            /\ UNCHANGED <<playersRef, scene, pendingLookups>>
       ELSE /\ Cardinality(pendingLookups) < MaxPending
            /\ Request(id, data) \notin pendingLookups
            /\ pendingLookups' = pendingLookups \cup {Request(id, data)}
            /\ UNCHANGED <<playersRef, scene, meshes>>
    /\ lastEvent' = Ev("playerMoved", id, data, FALSE, {})
    /\ UNCHANGED <<impl, effectVars, loopVars, playerRef, isConnected>>

\* legacy socket.on('playerMoved')
playerMoved_legacy(id, data) ==
    /\ impl = "legacy"
    /\ IF id \in DOMAIN playersRef
       THEN /\ Representable(meshes[playersRef[id]], data)
            /\ meshes' = [meshes EXCEPT ![playersRef[id]] = applyMove(@, data)]
       ELSE UNCHANGED meshes
    /\ lastEvent' = Ev("playerMoved", id, data, FALSE, {})
    /\ UNCHANGED <<impl, effectVars, loopVars, playersRef, scene, playerRef, pendingLookups, isConnected>>

\* the placeholder built when the server returns no player data
minimalPlayer(req) ==
    [id |-> req.id, name |-> GeneratedName(req.id),
     x |-> req.x, y |-> req.y, z |-> req.z]

\* the callback of socket.emit('getPlayerData', ...); playerData may be null
getPlayerDataCallback(req, playerData) ==
    /\ impl = "frontend"
    /\ req \in pendingLookups
    /\ pendingLookups' = pendingLookups \ {req}
    /\ Install(createPlayerMesh(CurrentWorld,
                   IF playerData # NoPlayer THEN playerData ELSE minimalPlayer(req)))
    /\ lastEvent' = Ev("getPlayerData", req.id, PosOf(req), playerData # NoPlayer, {})
    /\ UNCHANGED <<impl, effectVars, loopVars, playerRef, isConnected>>

\* the 30 s interval: if (isConnected) cleanupPlayerMeshes()
cleanupInterval ==
    /\ impl = "frontend"
    /\ "cleanupInterval" \in timers
    /\ isConnected
    /\ Install(cleanupPlayerMeshes(CurrentWorld))
    /\ lastEvent' = Ev("cleanup", NoId, NoPos, FALSE,
                       {meshes[o].playerId :
                            o \in scene \ cleanupPlayerMeshes(CurrentWorld).scene})
    /\ UNCHANGED <<impl, effectVars, loopVars, playerRef, pendingLookups, isConnected>>

\* socket.on('connect'): the frontend forgets the tracked players
connect ==
    /\ pc = "move"
    /\ isConnected' = TRUE
    /\ playersRef' = IF impl = "frontend" THEN EmptyMap ELSE playersRef
    /\ meshes' = IF impl = "frontend" THEN [o \in scene |-> meshes[o]] ELSE meshes
    /\ lastEvent' = Ev("connect", NoId, NoPos, FALSE, {})
    /\ UNCHANGED <<impl, effectVars, loopVars, scene, playerRef, pendingLookups>>

\* socket.on('disconnect')
disconnect ==
    /\ pc = "move"
    /\ isConnected' = FALSE
    /\ lastEvent' = Ev("disconnect", NoId, NoPos, FALSE, {})
    /\ UNCHANGED <<impl, effectVars, loopVars, playersRef, scene, meshes, playerRef, pendingLookups>>

-----------------------------------------------------------------------------
(* The effect: the late set-up of the listeners, the intervals, the cleanup *)

\* setupSocketListeners after await getSocket(): without a socket it returns;
\* with one it sets the listeners and the 30 s cleanup interval, and stores
\* the interval in cleanupIntervalRef
setupSocketListeners(socket) ==
    /\ impl = "frontend"
    /\ setupPending
    /\ setupPending' = FALSE
    /\ timers' = IF socket THEN timers \cup {"cleanupInterval"} ELSE timers
    /\ UNCHANGED <<impl, recVars, loopVars, playerRef, isConnected, mounted>>

\* the 10 s interval set at the end of the effect: it logs the tracked ids
trackingCheck ==
    /\ impl = "frontend"
    /\ "trackingCheck" \in timers
    /\ lastEvent' = Ev("trackingCheck", NoId, NoPos, FALSE, DOMAIN playersRef)
    /\ UNCHANGED <<impl, effectVars, loopVars, playersRef, scene, meshes,
                   playerRef, pendingLookups, isConnected>>

\* the function the frontend effect returns: the tracked meshes leave the
\* scene, the registry is cleared, and the interval cleanupIntervalRef holds,
\* if it holds one, is cleared
unmount ==
    /\ impl = "frontend"
    /\ pc = "move"
    /\ mounted
    /\ mounted' = FALSE
    /\ Install(World(EmptyMap, scene \ Range(playersRef), meshes))
    /\ timers' = timers \ {"cleanupInterval"}
    /\ setupPending' = setupPending
    /\ lastEvent' = Ev("unmount", NoId, NoPos, FALSE, {})
    /\ UNCHANGED <<impl, loopVars, playerRef, pendingLookups, isConnected>>

\* the function the legacy effect returns: the tracked meshes leave the
\* scene and the registry is cleared
unmount_legacy ==
    /\ impl = "legacy"
    /\ pc = "move"
    /\ mounted
    /\ mounted' = FALSE
    /\ Install(World(EmptyMap, scene \ Range(playersRef), meshes))
    /\ lastEvent' = Ev("unmount", NoId, NoPos, FALSE, {})
    /\ UNCHANGED <<impl, loopVars, playerRef, pendingLookups, isConnected,
                   setupPending, timers>>

-----------------------------------------------------------------------------
(* The frame loop: animate() runs updatePlayerMovement, then sendPositionUpdate *)

ANOMALOUS_SPEED_THRESHOLD == 100
JUMP_FORCE == 300
GRAVITY == 15
PLAYER_DEFAULT_Y == 1000

(* Bounds of the model *)
MaxFrames == 3
StartTime == 1000

Abs(v) == IF v < 0 THEN -v ELSE v
Sign(v) == IF v < 0 THEN -1 ELSE IF v > 0 THEN 1 ELSE 0

\* a + b in floating point: NaN if either is NaN
Plus(a, b) == IF a = NaN \/ b = NaN THEN NaN ELSE a + b

\* an axis on which, of two opposite keys held, the positive one wins
Axis_winning(keys, plus, minus) ==
    IF plus \in keys THEN 1 ELSE IF minus \in keys THEN -1 ELSE 0

\* the keys held during a frame, and the intent they give along an axis
Axis(keys, plus, minus) ==
    (IF plus \in keys THEN 1 ELSE 0) - (IF minus \in keys THEN 1 ELSE 0)

\* Math.sin and Math.cos of the camera angle, given in quarter turns
Sin4(q) == CASE q % 4 = 0 -> 0 [] q % 4 = 1 -> 1 [] q % 4 = 2 -> 0 [] OTHER -> -1
Cos4(q) == Sin4(q + 1)

\* Math.atan2(x, z) in thousandths of a radian, for a vector along an axis
\* or a diagonal
Atan2(x, z) ==
    CASE x = 0 /\ z >= 0 -> 0
      [] x > 0 /\ z > 0 -> 785
      [] x > 0 /\ z = 0 -> 1571
      [] x > 0 /\ z < 0 -> 2356
      [] x = 0 /\ z < 0 -> 3142
      [] x < 0 /\ z < 0 -> -2356
      [] x < 0 /\ z = 0 -> -1571
      [] OTHER -> -785

\* a % b of JavaScript, b > 0: the remainder has the sign of a
JsRem(a, b) == IF a >= 0 THEN a % b ELSE -((-a) % b)

\* ((rotationDiff + Math.PI) % (Math.PI * 2)) - Math.PI
normalizedDiff(rotationDiff) == JsRem(rotationDiff + PI, PI * 2) - PI

\* (normalizedDiff * 0.3) / 2, to the thousandth of a radian
rotationStep(diff) ==
    IF diff >= 0 THEN (diff * 15) \div 100 ELSE -((-diff * 15) \div 100)

\* move * delta * 60, the frame having lasted dt ms (delta = dt / 1000)
PerFrame(move, dt) == (move * dt * 60) \div 1000

\* a component of movement.normalize().multiplyScalar(MOVEMENT_SPEED), for
\* a vector of whole components: 0.15 along an axis, 0.15 / sqrt(2) = 0.106
\* on a diagonal, held to the hundredth below
Normalized(c, len2) ==
    IF len2 = 0 THEN 0
    ELSE IF len2 = 1 THEN c * MOVEMENT_SPEED
    ELSE c * ((MOVEMENT_SPEED * 70711) \div 100000)

Sample(x, z, time) == [x |-> x, z |-> z, time |-> time]

\* setCurrentZone called whatever the zone was
ZoneChanged_always(newZone, zone) == TRUE

\* if (newZone !== currentZone) setCurrentZone(newZone)
ZoneChanged(newZone, zone) == newZone # zone

\* the zones with the border lines of the Barbarian Village counted in
updatePlayerZone_inclusive(x, z) ==
    IF x <= -1000 /\ z <= -1000 THEN "Barbarian Village"
    ELSE IF x > 2500 /\ z < 0 THEN "Fishing Spot"
    ELSE IF x > 0 /\ z > 2500 THEN "Grand Exchange"
    ELSE IF x < -3000 \/ z < -3000 \/ x > 3000 \/ z > 3000 THEN "Wilderness"
    ELSE "Lumbridge"

\* the zones with the Wilderness looked for first
updatePlayerZone_outermost(x, z) ==
    IF x < -3000 \/ z < -3000 \/ x > 3000 \/ z > 3000 THEN "Wilderness"
    ELSE IF x < -1000 /\ z < -1000 THEN "Barbarian Village"
    ELSE IF x > 2500 /\ z < 0 THEN "Fishing Spot"
    ELSE IF x > 0 /\ z > 2500 THEN "Grand Exchange"
    ELSE "Lumbridge"

\* updatePlayerZone, newZone: the zone of a position
updatePlayerZone(x, z) ==
    IF x < -1000 /\ z < -1000 THEN "Barbarian Village"
    ELSE IF x > 2500 /\ z < 0 THEN "Fishing Spot"
    ELSE IF x > 0 /\ z > 2500 THEN "Grand Exchange"
    ELSE IF x < -3000 \/ z < -3000 \/ x > 3000 \/ z > 3000 THEN "Wilderness"
    ELSE "Lumbridge"

\* distance / timeDiff > ANOMALOUS_SPEED_THRESHOLD, for the squared distance
\* d2 (hundredths squared) and timeDiff in ms
SpeedExceeds(d2, timeDiff) ==
    LET perSecond == 1000 \div ANOMALOUS_SPEED_THRESHOLD
    IN d2 * perSecond * perSecond > timeDiff * timeDiff

\* the displacement left as it is, whatever its length
Capped_whole(d, d2, maxAllowedDistance) == d

\* (d / distance) * maxAllowedDistance to the nearest hundredth, where
\* distance is the square root of d2
Capped(d, d2, maxAllowedDistance) ==
    LET c == CHOOSE k \in 0..maxAllowedDistance :
                 /\ k = 0 \/ (2 * k - 1) * (2 * k - 1) * d2
                                <= (2 * Abs(d) * maxAllowedDistance)
                                       * (2 * Abs(d) * maxAllowedDistance)
                 /\ \A j \in (k + 1)..maxAllowedDistance :
                        (2 * j - 1) * (2 * j - 1) * d2
                            > (2 * Abs(d) * maxAllowedDistance)
                                  * (2 * Abs(d) * maxAllowedDistance)
    IN Sign(d) * c

\* the guard pulling the latest sample back by the allowed distance, from
\* where it is, whenever it is too fast
detectAnomalousMovement_stepping(history) ==
    LET n == Len(history)
        latest == history[n]
        previous == history[n - 1]
        dx == latest.x - previous.x
        dz == latest.z - previous.z
        d2 == dx * dx + dz * dz
        timeDiff == latest.time - previous.time
        maxAllowedDistance == MOVEMENT_SPEED * 2
        boundedX == Clamp(minX, maxX, latest.x - Capped(dx, d2, maxAllowedDistance))
        boundedZ == Clamp(minZ, maxZ, latest.z - Capped(dz, d2, maxAllowedDistance))
    IN IF /\ timeDiff > 0
          /\ SpeedExceeds(d2, timeDiff)
          /\ d2 > maxAllowedDistance * maxAllowedDistance
       THEN [history EXCEPT ![n] = Sample(boundedX, boundedZ, latest.time)]
       ELSE history

\* legacy detectAnomalousMovement on a history of two samples or more: the
\* history with its latest sample pulled back if it was too far, too fast
detectAnomalousMovement(history) ==
    LET n == Len(history)
        latest == history[n]
        previous == history[n - 1]
        dx == latest.x - previous.x
        dz == latest.z - previous.z
        d2 == dx * dx + dz * dz
        timeDiff == latest.time - previous.time
        maxAllowedDistance == MOVEMENT_SPEED * 2
        boundedX == Clamp(minX, maxX, previous.x + Capped(dx, d2, maxAllowedDistance))
        boundedZ == Clamp(minZ, maxZ, previous.z + Capped(dz, d2, maxAllowedDistance))
    IN IF /\ timeDiff > 0
          /\ SpeedExceeds(d2, timeDiff)
          /\ d2 > maxAllowedDistance * maxAllowedDistance
       THEN [history EXCEPT ![n] = Sample(boundedX, boundedZ, latest.time)]
       ELSE history

\* what a run of sendPositionUpdate saw and did
Eval(time, connected, changed, timeGate, deltaGate, emitted) ==
    [time |-> time, connected |-> connected, changed |-> changed,
     timeGate |-> timeGate, deltaGate |-> deltaGate, emitted |-> emitted]

\* a report that carries the ground level for y
Report_flat(time, p) == [time |-> time, x |-> p.x, y |-> 0, z |-> p.z]

Report(time, p) == [time |-> time, x |-> p.x, y |-> p.y, z |-> p.z]

\* legacy updatePlayerMovement, in the frame that starts dt ms after the last
updatePlayerMovement_legacy(keys, dt) ==
    /\ impl = "legacy"
    /\ pc = "move"
    /\ frame < MaxFrames
    /\ now' = now + dt
    /\ frame' = frame + 1
    /\ pc' = "send"
    /\ LET moveX == Axis(keys, "d", "a") * MOVEMENT_SPEED
           moveZ == Axis(keys, "s", "w") * MOVEMENT_SPEED
           newX == Clamp(minX, maxX, playerRef.x + PerFrame(moveX, dt))
           newZ == Clamp(minZ, maxZ, playerRef.z + PerFrame(moveZ, dt))
           pushed == Append(positionHistory, Sample(newX, newZ, now'))
           kept == IF Len(pushed) > MAX_HISTORY_LENGTH THEN Tail(pushed) ELSE pushed
           checked == IF Len(kept) >= 2 THEN detectAnomalousMovement(kept) ELSE kept
       IN IF (moveX # 0 \/ moveZ # 0) /\ (newX # playerRef.x \/ newZ # playerRef.z)
          THEN /\ playerRef' = [playerRef EXCEPT !.x = checked[Len(checked)].x,
                                                 !.z = checked[Len(checked)].z]
               /\ movementChanged' = TRUE
               /\ LET newZone == updatePlayerZone(newX, newZ)
                  IN /\ currentZone' = newZone
                     /\ zoneNotices' = IF ZoneChanged(newZone, currentZone)
                                       THEN Append(zoneNotices, newZone)
                                       ELSE zoneNotices
               /\ positionHistory' = checked
          ELSE UNCHANGED <<playerRef, movementChanged, currentZone, zoneNotices, positionHistory>>
    /\ UNCHANGED <<impl, effectVars, recVars, isConnected, lastSentPosition, lastSendTime,
                   socketReady, sendsInFlight, reports, lastEval, isJumping,
                   jumpVelocity>>

\* the delta test passing on any position
ChangedEnough_unchecked(p, sent) ==
    Abs(p.x - sent.x) >= 0 \/ Abs(p.z - sent.z) >= 0

\* position differs from lastSentPosition by more than 0.01 on x or on z
ChangedEnough(p, sent) ==
    Abs(p.x - sent.x) > MIN_CHANGE \/ Abs(p.z - sent.z) > MIN_CHANGE

validatedPosition(p) == Pos(Clamp(minX, maxX, p.x), p.y, Clamp(minZ, maxZ, p.z))

\* sendPositionUpdate resetting the flag whenever it runs, connected or not,
\* in time or not
sendPositionUpdate_resetting ==
    /\ impl = "legacy"
    /\ pc = "send"
    /\ pc' = "move"
    /\ LET timeGate == now - lastSendTime >= SEND_INTERVAL
           deltaGate == ChangedEnough(playerRef, lastSentPosition)
           runs == isConnected /\ movementChanged
       IN /\ lastEval' = Eval(now, isConnected, movementChanged, timeGate,
                              deltaGate, runs /\ timeGate /\ deltaGate)
          /\ IF runs /\ timeGate /\ deltaGate
             THEN /\ reports' = Append(reports, Report(now, validatedPosition(playerRef)))
                  /\ lastSentPosition' = validatedPosition(playerRef)
                  /\ lastSendTime' = now
             ELSE UNCHANGED <<reports, lastSentPosition, lastSendTime>>
          /\ movementChanged' = FALSE
    /\ UNCHANGED <<impl, effectVars, recVars, playerRef, isConnected, now, frame,
                   positionHistory, currentZone, zoneNotices, socketReady, sendsInFlight,
                   isJumping, jumpVelocity>>

\* legacy sendPositionUpdate storing the time elapsed since the last report
sendPositionUpdate_elapsed ==
    /\ impl = "legacy"
    /\ pc = "send"
    /\ pc' = "move"
    /\ LET timeGate == now - lastSendTime >= SEND_INTERVAL
           deltaGate == ChangedEnough(playerRef, lastSentPosition)
           runs == isConnected /\ movementChanged
       IN /\ lastEval' = Eval(now, isConnected, movementChanged, timeGate,
                              deltaGate, runs /\ timeGate /\ deltaGate)
          /\ IF runs /\ timeGate /\ deltaGate
             THEN /\ reports' = Append(reports, Report(now, validatedPosition(playerRef)))
                  /\ lastSentPosition' = validatedPosition(playerRef)
                  /\ lastSendTime' = now - lastSendTime
             ELSE UNCHANGED <<reports, lastSentPosition, lastSendTime>>
          /\ movementChanged' = IF runs /\ timeGate THEN FALSE ELSE movementChanged
    /\ UNCHANGED <<impl, effectVars, recVars, playerRef, isConnected, now, frame,
                   positionHistory, currentZone, zoneNotices, socketReady, sendsInFlight,
                   isJumping, jumpVelocity>>

\* legacy sendPositionUpdate
sendPositionUpdate_legacy ==
    /\ impl = "legacy"
    /\ pc = "send"
    /\ pc' = "move"
    /\ LET timeGate == now - lastSendTime >= SEND_INTERVAL
           deltaGate == ChangedEnough(playerRef, lastSentPosition)
           runs == isConnected /\ movementChanged
       IN /\ lastEval' = Eval(now, isConnected, movementChanged, timeGate,
                              deltaGate, runs /\ timeGate /\ deltaGate)
          /\ IF runs /\ timeGate /\ deltaGate
             THEN /\ reports' = Append(reports, Report(now, validatedPosition(playerRef)))
                  /\ lastSentPosition' = validatedPosition(playerRef)
                  /\ lastSendTime' = now
             ELSE UNCHANGED <<reports, lastSentPosition, lastSendTime>>
          /\ movementChanged' = IF runs /\ timeGate THEN FALSE ELSE movementChanged
    /\ UNCHANGED <<impl, effectVars, recVars, playerRef, isConnected, now, frame,
                   positionHistory, currentZone, zoneNotices, socketReady, sendsInFlight,
                   isJumping, jumpVelocity>>

\* frontend updatePlayerMovement, the camera at angle quarter turns
updatePlayerMovement(keys, angle, dt) ==
    /\ impl = "frontend"
    /\ pc = "move"
    /\ frame < MaxFrames
    /\ now' = now + dt
    /\ frame' = frame + 1
    /\ pc' = "send"
    /\ LET f == Axis(keys, "s", "w")
           r == Axis(keys, "d", "a")
           mx == f * Sin4(angle) + r * Cos4(angle)
           mz == f * Cos4(angle) - r * Sin4(angle)
           len2 == mx * mx + mz * mz
           y1 == playerRef.y + jumpVelocity
       IN /\ playerRef' =
                 [playerRef EXCEPT
                     !.x = Plus(@, Normalized(mx, len2)),
                     !.z = Plus(@, Normalized(mz, len2)),
                     !.y = IF ~isJumping THEN @
                           ELSE IF y1 <= 1000 THEN 1000 ELSE y1,
                     !.rotation = IF len2 > 0 THEN Atan2(mx, mz) ELSE @]
          /\ isJumping' = (isJumping /\ y1 > 1000)
          /\ jumpVelocity' = IF ~isJumping THEN jumpVelocity
                             ELSE IF y1 <= 1000 THEN 0 ELSE jumpVelocity - GRAVITY
    /\ UNCHANGED <<impl, effectVars, recVars, isConnected, lastSentPosition, lastSendTime,
                   movementChanged, positionHistory, currentZone, zoneNotices, socketReady,
                   sendsInFlight, reports, lastEval>>

\* frontend sendPositionUpdate up to await getSocket()
sendPositionUpdate ==
    /\ impl = "frontend"
    /\ pc = "send"
    /\ pc' = "move"
    /\ LET timeGate == now - lastSendTime >= SEND_INTERVAL
           deltaGate == ChangedEnough(playerRef, lastSentPosition)
           runs == isConnected /\ socketReady /\ movementChanged
       IN /\ lastEval' = Eval(now, isConnected /\ socketReady, movementChanged,
                              timeGate, deltaGate, FALSE)
          /\ IF runs /\ timeGate /\ deltaGate
             THEN /\ sendsInFlight' = sendsInFlight \cup
                         {Report(now, validatedPosition(playerRef))}
                  /\ UNCHANGED movementChanged
             ELSE /\ movementChanged' = IF runs THEN FALSE ELSE movementChanged
                  /\ UNCHANGED sendsInFlight
    /\ UNCHANGED <<impl, effectVars, recVars, playerRef, isConnected, now, frame,
                   lastSentPosition, lastSendTime, positionHistory, currentZone, zoneNotices,
                   socketReady, reports, isJumping, jumpVelocity>>

\* frontend sendPositionUpdate from the resolution of getSocket() on.  No
\* call reaches the await, because nothing in the frontend component sets
\* movementChanged (sendsInFlight stays empty, see C2_ReportsApart); the step
\* is therefore not among the steps of the frame loop below.
sendPositionUpdate_resumed(call) ==
    /\ impl = "frontend"
    /\ call \in sendsInFlight
    /\ sendsInFlight' = sendsInFlight \ {call}
    /\ IF socketReady
       THEN /\ reports' = Append(reports, call)
            /\ lastSentPosition' = Pos(call.x, call.y, call.z)
            /\ lastSendTime' = call.time
            /\ UNCHANGED isConnected
       ELSE /\ isConnected' = FALSE
            /\ UNCHANGED <<reports, lastSentPosition, lastSendTime>>
    /\ movementChanged' = FALSE
    /\ lastEval' = [lastEval EXCEPT !.emitted = socketReady]
    /\ UNCHANGED <<impl, effectVars, recVars, playerRef, now, frame, pc, positionHistory,
                   currentZone, zoneNotices, socketReady, isJumping, jumpVelocity>>

\* the hook's updatePlayerMovement taking a jump attempt in the air as well
updatePlayerMovement_hook_midair(keys, angle, attemptJump, dt) ==
    /\ impl = "hook"
    /\ pc = "move"
    /\ frame < MaxFrames
    /\ now' = now + dt
    /\ frame' = frame + 1
    /\ LET jumps == attemptJump
           airborne == isJumping \/ jumps
           velocity == IF jumps THEN JUMP_FORCE ELSE jumpVelocity
           y1 == playerRef.y + velocity
           lands == airborne /\ y1 <= PLAYER_DEFAULT_Y
           f == Axis(keys, "s", "w")
           r == Axis(keys, "d", "a")
           moveX == (f * Sin4(angle) + r * Cos4(angle)) * MOVEMENT_SPEED
           moveZ == (f * Cos4(angle) - r * Sin4(angle)) * MOVEMENT_SPEED
           boundedX == Clamp(minX, maxX, playerRef.x + moveX)
           boundedZ == Clamp(minZ, maxZ, playerRef.z + moveZ)
           moves == moveX # 0 \/ moveZ # 0
           step == rotationStep(normalizedDiff(Atan2(moveX, moveZ) - playerRef.rotation))
           turns == moves /\ Abs(step) > 1
           positionChanged ==
               \/ airborne
               \/ moves /\ (playerRef.x # boundedX \/ playerRef.z # boundedZ)
       IN /\ playerRef' =
                 [playerRef EXCEPT
                     !.x = IF moves THEN boundedX ELSE @,
                     !.z = IF moves THEN boundedZ ELSE @,
                     !.y = IF ~airborne THEN @
                           ELSE IF lands THEN PLAYER_DEFAULT_Y ELSE y1,
                     !.rotation = IF turns THEN @ + step ELSE @]
          /\ movementChanged' = (positionChanged \/ turns)
          /\ isJumping' = (airborne /\ ~lands)
          /\ jumpVelocity' = IF ~airborne THEN jumpVelocity
                             ELSE IF lands THEN 0 ELSE velocity - GRAVITY
    /\ UNCHANGED <<impl, effectVars, recVars, isConnected, pc, lastSentPosition,
                   lastSendTime, positionHistory, currentZone, zoneNotices,
                   socketReady, sendsInFlight, reports, lastEval>>

\* the hook's updatePlayerMovement: the jump and the horizontal move (the
\* rotation of the mesh is not held in the model)
updatePlayerMovement_hook(keys, angle, attemptJump, dt) ==
    /\ impl = "hook"
    /\ pc = "move"
    /\ frame < MaxFrames
    /\ now' = now + dt
    /\ frame' = frame + 1
    /\ LET jumps == attemptJump /\ ~isJumping
           airborne == isJumping \/ jumps
           velocity == IF jumps THEN JUMP_FORCE ELSE jumpVelocity
           y1 == playerRef.y + velocity
           lands == airborne /\ y1 <= PLAYER_DEFAULT_Y
           f == Axis(keys, "s", "w")
           r == Axis(keys, "d", "a")
           moveX == (f * Sin4(angle) + r * Cos4(angle)) * MOVEMENT_SPEED
           moveZ == (f * Cos4(angle) - r * Sin4(angle)) * MOVEMENT_SPEED
           boundedX == Clamp(minX, maxX, playerRef.x + moveX)
           boundedZ == Clamp(minZ, maxZ, playerRef.z + moveZ)
           moves == moveX # 0 \/ moveZ # 0
           step == rotationStep(normalizedDiff(Atan2(moveX, moveZ) - playerRef.rotation))
           turns == moves /\ Abs(step) > 1
           positionChanged ==
               \/ airborne
               \/ moves /\ (playerRef.x # boundedX \/ playerRef.z # boundedZ)
       IN /\ playerRef' =
                 [playerRef EXCEPT
                     !.x = IF moves THEN boundedX ELSE @,
                     !.z = IF moves THEN boundedZ ELSE @,
                     !.y = IF ~airborne THEN @
                           ELSE IF lands THEN PLAYER_DEFAULT_Y ELSE y1,
                     !.rotation = IF turns THEN @ + step ELSE @]
          /\ movementChanged' = (positionChanged \/ turns)
          /\ isJumping' = (airborne /\ ~lands)
          /\ jumpVelocity' = IF ~airborne THEN jumpVelocity
                             ELSE IF lands THEN 0 ELSE velocity - GRAVITY
    /\ UNCHANGED <<impl, effectVars, recVars, isConnected, pc, lastSentPosition,
                   lastSendTime, positionHistory, currentZone, zoneNotices,
                   socketReady, sendsInFlight, reports, lastEval>>

\* the socket connects or drops: isSocketReady() and socket.connected change
socketStatus ==
    /\ impl = "frontend"
    /\ pc = "move"
    /\ socketReady' = ~socketReady
    /\ UNCHANGED <<impl, effectVars, recVars, playerRef, isConnected, now, frame, pc,
                   lastSentPosition, lastSendTime, movementChanged,
                   positionHistory, currentZone, zoneNotices, sendsInFlight, reports,
                   lastEval, isJumping, jumpVelocity>>

-----------------------------------------------------------------------------
(* The state after the component has mounted *)

\* the intervals a mounted component has set once its listeners are set up:
\* the 30 s cleanup and the 10 s tracking check of the frontend component
Started(version) ==
    IF version = "frontend" THEN {"cleanupInterval", "trackingCheck"} ELSE {}

\* the component once its effect has run from the top: with its socket
\* listeners set up, or with setupSocketListeners still waiting for the socket
\* (the legacy component sets them up in the effect itself)
EffectRun(impls, positions, listening) ==
    /\ impl \in impls
    /\ playersRef = EmptyMap
    /\ scene = {}
    /\ meshes = EmptyMap
    /\ \E p \in positions : playerRef = [playerId |-> NoId, x |-> p.x, y |-> p.y, z |-> p.z,
                                        rotation |-> 0]
    /\ pendingLookups = {}
    /\ isConnected = FALSE
    /\ lastEvent = [type |-> "mount", id |-> NoId, pos |-> NoPos,
                    found |-> FALSE, ids |-> {}, known |-> FALSE,
                    list |-> <<>>, reply |-> <<>>, valid |-> {}]
    /\ now = StartTime
    /\ frame = 0
    /\ pc = "move"
    /\ lastSentPosition = Pos(0, 1000, 0)
    /\ lastSendTime = 0
    /\ movementChanged = FALSE
    /\ positionHistory = <<>>
    /\ currentZone = "Lumbridge"
    /\ zoneNotices = <<>>
    /\ mounted = TRUE
    /\ setupPending = (impl = "frontend" /\ ~listening)
    /\ timers = IF listening THEN Started(impl)
                ELSE Started(impl) \ {"cleanupInterval"}
    /\ socketReady = FALSE
    /\ sendsInFlight = {}
    /\ reports = <<>>
    /\ lastEval = Eval(0, FALSE, FALSE, FALSE, FALSE, FALSE)
    /\ isJumping = FALSE
    /\ jumpVelocity = 0

Mounted(impls, positions) == EffectRun(impls, positions, TRUE)

vars == <<impl, playerRef, isConnected, recVars, loopVars, effectVars>>

-----------------------------------------------------------------------------
(* The reconciler: the inbound events in any interleaving *)

PlayersOf(players, id) == {Player(id, n, p) : n \in Names, p \in players[id]}

Init == Mounted({"frontend", "legacy"}, {Origin})

Events(moves, players) ==
    \/ \E roster \in Rosters(players) : initPlayers(roster)
    \/ \E roster \in Rosters(players) : initPlayers_legacy(roster)
    \/ \E id \in DOMAIN players : \E player \in PlayersOf(players, id) :
          playerJoined(player)
    \/ \E id \in DOMAIN players : \E player \in PlayersOf(players, id) :
          playerJoined_legacy(player)
    \/ \E id \in DOMAIN players : playerLeft(id)
    \/ \E id \in DOMAIN players : playerLeft_legacy(id)
    \/ \E id \in DOMAIN moves : \E data \in moves[id] : playerMoved(id, data)
    \/ \E id \in DOMAIN moves : \E data \in moves[id] : playerMoved_legacy(id, data)
    \/ \E req \in pendingLookups :
          \E playerData \in {NoPlayer} \cup PlayersOf(players, req.id) :
              getPlayerDataCallback(req, playerData)
    \/ cleanupInterval
    \/ connect
    \/ disconnect

Next == Events(LifecycleMoves, LifecyclePlayers)
NextPositions == Events(PositionsMoves, PositionsPlayers)

Spec == Init /\ [][Next]_vars
SpecPositions == Init /\ [][NextPositions]_vars

-----------------------------------------------------------------------------
(* The frame loop under the throttle: few intents, frames of 50 and 60 ms,   *)
(* the connection coming and going                                           *)

ThrottleKeys == {{}, {"d"}, {"a"}}
ThrottleFrames == {50, 60}

InitThrottle == Mounted({"frontend", "legacy"}, {Origin})

NextThrottle ==
    \/ \E keys \in ThrottleKeys : \E dt \in ThrottleFrames :
          updatePlayerMovement_legacy(keys, dt)
    \/ sendPositionUpdate_legacy
    \/ \E keys \in ThrottleKeys : \E dt \in ThrottleFrames :
          updatePlayerMovement(keys, 0, dt)
    \/ sendPositionUpdate
    \/ socketStatus
    \/ connect
    \/ disconnect

SpecThrottle == InitThrottle /\ [][NextThrottle]_vars

-----------------------------------------------------------------------------
(* The integrators: every direction, from the origin and from next to a      *)
(* corner of the world                                                       *)

NearCorner == Pos(4995, 1000, -4995)
MoveKeys == {{}, {"w"}, {"a"}, {"s"}, {"d"}, {"w", "d"}, {"w", "s"}}
MoveFrames == {20, 50}
CameraAngles == {0, 1}

InitMove == Mounted({"frontend", "legacy", "hook"}, {Origin, NearCorner})

NextMove ==
    \/ \E keys \in MoveKeys : \E dt \in MoveFrames :
          updatePlayerMovement_legacy(keys, dt)
    \/ sendPositionUpdate_legacy
    \/ \E keys \in MoveKeys : \E angle \in CameraAngles : \E dt \in MoveFrames :
          updatePlayerMovement(keys, angle, dt)
    \/ sendPositionUpdate
    \/ \E keys \in MoveKeys : \E angle \in CameraAngles :
          \E attemptJump \in BOOLEAN : \E dt \in MoveFrames :
              updatePlayerMovement_hook(keys, angle, attemptJump, dt)

SpecMove == InitMove /\ [][NextMove]_vars

-----------------------------------------------------------------------------
(* The sync check of the frontend, between joins and leaves *)

MaxListLen == 3

\* the lists of ids the server can send: any ids, repeated or not
SyncLists == UNION {[1..n -> Ids] : n \in 0..MaxListLen}

InitSync == Mounted({"frontend"}, {Origin})

NextSync ==
    \/ \E id \in DOMAIN LifecyclePlayers :
          \E player \in PlayersOf(LifecyclePlayers, id) : playerJoined(player)
    \/ \E id \in DOMAIN LifecyclePlayers : playerLeft(id)
    \/ \E playerIds \in SyncLists : checkPlayersSync(playerIds)

SpecSync == InitSync /\ [][NextSync]_vars

-----------------------------------------------------------------------------
(* The anomaly guard on its own: a history of two samples, the guard run on  *)
(* it, and run again on what it left                                         *)

\* the legacy component with the local player at (x, z), the given history
\* and clock, and nothing received or sent yet
Running(x, z, history, time, changed, eval, at) ==
    /\ impl = "legacy"
    /\ playersRef = EmptyMap
    /\ scene = {}
    /\ meshes = EmptyMap
    /\ playerRef = [playerId |-> NoId, x |-> x, y |-> Origin.y, z |-> z,
                    rotation |-> 0]
    /\ pendingLookups = {}
    /\ isConnected = FALSE
    /\ lastEvent = [type |-> "mount", id |-> NoId, pos |-> NoPos,
                    found |-> FALSE, ids |-> {}, known |-> FALSE,
                    list |-> <<>>, reply |-> <<>>, valid |-> {}]
    /\ now = time
    /\ frame = 0
    /\ pc = at
    /\ lastSentPosition = Pos(0, 1000, 0)
    /\ lastSendTime = 0
    /\ movementChanged = changed
    /\ positionHistory = history
    /\ currentZone = "Lumbridge"
    /\ zoneNotices = <<>>
    /\ mounted = TRUE
    /\ setupPending = FALSE
    /\ timers = Started(impl)
    /\ socketReady = FALSE
    /\ sendsInFlight = {}
    /\ reports = <<>>
    /\ lastEval = eval
    /\ isJumping = FALSE
    /\ jumpVelocity = 0

\* what the sender saw and did in a frame that ended at (x, z) with the
\* socket never connected and nothing sent yet
Unsent(time, x, z) ==
    Eval(time, FALSE, TRUE, time >= SEND_INTERVAL,
         ChangedEnough([x |-> x, z |-> z], Pos(0, 1000, 0)), FALSE)

\* displacements between the two samples: along an axis, along a diagonal,
\* and along directions whose capped step is a whole number of hundredths
GuardSteps ==
    {<<sx * d[1], sz * d[2]>> :
        sx \in {-1, 1}, sz \in {-1, 1},
        d \in {<<0, 0>>, <<9, 12>>, <<30, 0>>, <<45, 0>>, <<0, 45>>, <<45, 45>>,
               <<36, 48>>, <<60, 80>>, <<80, 60>>, <<300, 400>>}}

\* where the previous sample is: the origin, and next to a corner
GuardStarts == {<<0, 0>>, <<4900, -4900>>}

\* ms between the two samples: none, a frame, a second
GuardTimes == {0, 50, 1000}

InitGuard ==
    \E s \in GuardStarts : \E d \in GuardSteps : \E dt \in GuardTimes :
        /\ minX <= s[1] + d[1] /\ s[1] + d[1] <= maxX
        /\ minZ <= s[2] + d[2] /\ s[2] + d[2] <= maxZ
        /\ Running(s[1] + d[1], s[2] + d[2],
                   <<Sample(s[1], s[2], StartTime),
                     Sample(s[1] + d[1], s[2] + d[2], StartTime + dt)>>,
                   StartTime + dt, TRUE, Unsent(StartTime, s[1], s[2]), "guard")

\* if (positionHistory.current.length >= 2) detectAnomalousMovement()
detectAnomalousMovementCall ==
    /\ impl = "legacy"
    /\ pc \in {"guard", "guarded"}
    /\ Len(positionHistory) >= 2
    /\ pc' = "guarded"
    /\ positionHistory' = detectAnomalousMovement(positionHistory)
    /\ playerRef' = IF positionHistory' # positionHistory
                    THEN [playerRef EXCEPT
                             !.x = positionHistory'[Len(positionHistory')].x,
                             !.z = positionHistory'[Len(positionHistory')].z]
                    ELSE playerRef
    /\ UNCHANGED <<impl, effectVars, recVars, isConnected, now, frame, lastSentPosition,
                   lastSendTime, movementChanged, currentZone, zoneNotices, socketReady,
                   sendsInFlight, reports, lastEval, isJumping, jumpVelocity>>

NextGuard == detectAnomalousMovementCall

SpecGuard == InitGuard /\ [][NextGuard]_vars

-----------------------------------------------------------------------------
(* The history of the legacy component over a long walk: the frames of the   *)
(* run start after up to WalkFrames frames of walking east                   *)

WalkFrames == 4
WalkFrame == 50

RECURSIVE Walk(_)
\* positionHistory after n frames of WalkFrame ms with the key d held, from
\* the origin: what updatePlayerMovement pushes, evicts and checks
Walk(n) ==
    IF n = 0 THEN <<>>
    ELSE LET before == Walk(n - 1)
             x == IF n = 1 THEN Origin.x ELSE before[Len(before)].x
             newX == Clamp(minX, maxX, x + PerFrame(MOVEMENT_SPEED, WalkFrame))
             pushed == Append(before, Sample(newX, Origin.z, StartTime + n * WalkFrame))
             kept == IF Len(pushed) > MAX_HISTORY_LENGTH THEN Tail(pushed) ELSE pushed
         IN IF Len(kept) >= 2 THEN detectAnomalousMovement(kept) ELSE kept

InitHistory ==
    \E n \in 0..WalkFrames :
        IF n = 0
        THEN Running(Origin.x, Origin.z, <<>>, StartTime, FALSE,
                     Eval(0, FALSE, FALSE, FALSE, FALSE, FALSE), "move")
        ELSE Running(Walk(n)[Len(Walk(n))].x, Origin.z, Walk(n),
                     StartTime + n * WalkFrame, TRUE,
                     Unsent(StartTime + n * WalkFrame, Walk(n)[Len(Walk(n))].x, Origin.z),
                     "move")

NextHistory ==
    \/ \E keys \in ThrottleKeys : \E dt \in ThrottleFrames :
          updatePlayerMovement_legacy(keys, dt)
    \/ sendPositionUpdate_legacy

SpecHistory == InitHistory /\ [][NextHistory]_vars

-----------------------------------------------------------------------------
(* The jump of the hook, from take-off to landing: the ticks of the run      *)
(* start up to FlightTicks ticks after a jump from the ground                *)

FlightTicks == 41
TickFrame == 20

RECURSIVE Flight(_)
\* y, jumpVelocity and isJumping k ticks after the tick that jumped from the
\* ground, no other jump attempted since
Flight(k) ==
    IF k = 0 THEN [y |-> PLAYER_DEFAULT_Y, velocity |-> 0, jumping |-> FALSE]
    ELSE LET before == Flight(k - 1)
             velocity == IF k = 1 THEN JUMP_FORCE ELSE before.velocity
             y1 == before.y + velocity
         IN IF k > 1 /\ ~before.jumping THEN before
            ELSE IF y1 <= PLAYER_DEFAULT_Y
            THEN [y |-> PLAYER_DEFAULT_Y, velocity |-> 0, jumping |-> FALSE]
            ELSE [y |-> y1, velocity |-> velocity - GRAVITY, jumping |-> TRUE]

\* the hook's player k ticks into a jump made at the origin
InitJump ==
    \E k \in 0..FlightTicks :
        /\ impl = "hook"
        /\ playersRef = EmptyMap
        /\ scene = {}
        /\ meshes = EmptyMap
        /\ playerRef = [playerId |-> NoId, x |-> Origin.x, y |-> Flight(k).y,
                        z |-> Origin.z, rotation |-> 0]
        /\ pendingLookups = {}
        /\ isConnected = FALSE
        /\ lastEvent = [type |-> "mount", id |-> NoId, pos |-> NoPos,
                        found |-> FALSE, ids |-> {}, known |-> FALSE,
                        list |-> <<>>, reply |-> <<>>, valid |-> {}]
        /\ now = StartTime + k * TickFrame
        /\ frame = 0
        /\ pc = "move"
        /\ lastSentPosition = Pos(0, 1000, 0)
        /\ lastSendTime = 0
        /\ movementChanged = (k > 0)
        /\ positionHistory = <<>>
        /\ currentZone = "Lumbridge"
        /\ zoneNotices = <<>>
        /\ mounted = TRUE
        /\ setupPending = FALSE
        /\ timers = Started(impl)
        /\ socketReady = FALSE
        /\ sendsInFlight = {}
        /\ reports = <<>>
        /\ lastEval = Eval(0, FALSE, FALSE, FALSE, FALSE, FALSE)
        /\ isJumping = Flight(k).jumping
        /\ jumpVelocity = Flight(k).velocity

JumpKeys == {{}, {"w"}}

NextJump ==
    \E keys \in JumpKeys : \E attemptJump \in BOOLEAN :
        updatePlayerMovement_hook(keys, 0, attemptJump, TickFrame)

SpecJump == InitJump /\ [][NextJump]_vars

-----------------------------------------------------------------------------
(* The zone of every point of the world whose coordinates are whole units:   *)
(* the legacy component calls updatePlayerZone for the point it moved to     *)

ZonePoints == {u * 100 : u \in (minX \div 100)..(maxX \div 100)}

InitZones ==
    \E x \in ZonePoints : \E z \in ZonePoints :
        Running(x, z, <<>>, StartTime, TRUE,
                Eval(0, FALSE, FALSE, FALSE, FALSE, FALSE), "zone")

\* updatePlayerZone(newX, newZ) for the position the integrator has set
updatePlayerZoneCall ==
    /\ impl = "legacy"
    /\ pc = "zone"
    /\ pc' = "zoned"
    /\ LET newZone == updatePlayerZone(playerRef.x, playerRef.z)
       IN /\ currentZone' = newZone
          /\ zoneNotices' = IF ZoneChanged(newZone, currentZone)
                            THEN Append(zoneNotices, newZone)
                            ELSE zoneNotices
    /\ UNCHANGED <<impl, effectVars, recVars, playerRef, isConnected, now, frame,
                   lastSentPosition, lastSendTime, movementChanged,
                   positionHistory, socketReady, sendsInFlight, reports,
                   lastEval, isJumping, jumpVelocity>>

NextZones == updatePlayerZoneCall

SpecZones == InitZones /\ [][NextZones]_vars

-----------------------------------------------------------------------------
(* The legacy component at the border of the Wilderness: the frames of the   *)
(* run start after about BorderFrames frames of walking east, a step or two  *)
(* from the line x = 30                                                      *)

BorderFrames == 98

\* Walk(n) for n >= MAX_HISTORY_LENGTH, without the recursion: the first
\* frame moves by the whole step, each later one by the step the guard caps
\* it to, and the last five samples are kept
Walked(n) ==
    LET whole == PerFrame(MOVEMENT_SPEED, WalkFrame)
        capped == 2 * MOVEMENT_SPEED
    IN [i \in 1..MAX_HISTORY_LENGTH |->
           LET k == n - MAX_HISTORY_LENGTH + i
           IN Sample(Origin.x + whole + (k - 1) * capped, Origin.z,
                     StartTime + k * WalkFrame)]

InitBorder ==
    \E n \in (BorderFrames - 2)..BorderFrames :
        LET x == Walked(n)[MAX_HISTORY_LENGTH].x
        IN Running(x, Origin.z, Walked(n), StartTime + n * WalkFrame, TRUE,
                   Unsent(StartTime + n * WalkFrame, x, Origin.z), "move")

NextBorder ==
    \/ \E keys \in ThrottleKeys : \E dt \in MoveFrames :
          updatePlayerMovement_legacy(keys, dt)
    \/ sendPositionUpdate_legacy

SpecBorder == InitBorder /\ [][NextBorder]_vars

-----------------------------------------------------------------------------
(* The effect torn down: before or after the listeners are set up, with     *)
(* players tracked and, in the legacy component, after frames of movement    *)

InitTeardown == EffectRun({"frontend", "legacy"}, {Origin}, FALSE)

TeardownPlayers == [i \in RemoteIds |-> {Origin}]

\* the listeners are set up and not yet removed
Listening == mounted /\ ~setupPending

NextTeardown ==
    \/ \E socket \in BOOLEAN : setupSocketListeners(socket)
    \/ \E id \in RemoteIds : \E player \in PlayersOf(TeardownPlayers, id) :
          Listening /\ playerJoined(player)
    \/ \E id \in RemoteIds : \E player \in PlayersOf(TeardownPlayers, id) :
          Listening /\ playerJoined_legacy(player)
    \/ Listening /\ connect
    \/ \E keys \in ThrottleKeys :
          mounted /\ updatePlayerMovement_legacy(keys, WalkFrame)
    \/ mounted /\ sendPositionUpdate_legacy
    \/ unmount
    \/ unmount_legacy
    \/ cleanupInterval
    \/ trackingCheck

SpecTeardown == InitTeardown /\ [][NextTeardown]_vars

-----------------------------------------------------------------------------
(* The legacy component reporting from next to a corner of the world *)

InitEdge == Mounted({"legacy"}, {NearCorner})

NextEdge ==
    \/ \E keys \in MoveKeys : \E dt \in ThrottleFrames :
          updatePlayerMovement_legacy(keys, dt)
    \/ sendPositionUpdate_legacy
    \/ connect

SpecEdge == InitEdge /\ [][NextEdge]_vars

-----------------------------------------------------------------------------
(* Properties of the reconciler *)

\* the live representations of an id: the remote meshes of the scene that
\* carry it, and the local mesh if it carries it
Representations(id) ==
    Cardinality(SceneObjectsOf(CurrentWorld, id))
        + (IF playerRef.playerId = id THEN 1 ELSE 0)

C7_StoredInBounds ==
    /\ -5000 <= playerRef.x /\ playerRef.x <= 5000
    /\ -5000 <= playerRef.z /\ playerRef.z <= 5000
    /\ \A o \in scene :
           /\ -5000 <= meshes[o].x /\ meshes[o].x <= 5000
           /\ -5000 <= meshes[o].z /\ meshes[o].z <= 5000

\* a move event has just been handled for an id that was in the registry
MovedKnown ==
    /\ lastEvent'.type = "playerMoved"
    /\ lastEvent'.known
    /\ lastEvent'.id # LocalId

\* C8: a move for a tracked id, the target being its position clamped to the
\* bounds: if the target is strictly more than 5 units from the entity, the
\* entity's x and z become the midpoint of the two; otherwise they become
\* the target.  The keys of the registry do not change.
C8_MidpointOrTarget ==
    [][MovedKnown =>
          LET id == lastEvent'.id
              d == lastEvent'.pos
              m == meshes[playersRef[id]]
              after == meshes'[playersRef[id]]
              cx == Max(-5000, Min(5000, d.x))
              cz == Max(-5000, Min(5000, d.z))
              far == (cx - m.x) * (cx - m.x) + (cz - m.z) * (cz - m.z) > 500 * 500
          IN /\ DOMAIN playersRef' = DOMAIN playersRef
             /\ (d.x # NaN /\ d.z # NaN /\ m.x # NaN /\ m.z # NaN) =>
                    IF far
                    THEN 2 * after.x = m.x + cx /\ 2 * after.z = m.z + cz
                    ELSE after.x = cx /\ after.z = cz]_vars

\* a tracked entity has just been moved halfway to a target that was more
\* than 5 units away
C8_Witness ==
    /\ lastEvent.type = "playerMoved"
    /\ lastEvent.known
    /\ lastEvent.id \in DOMAIN playersRef
    /\ lastEvent.pos.x # NaN
    /\ meshes[playersRef[lastEvent.id]].x # NaN
    /\ meshes[playersRef[lastEvent.id]].x # Max(-5000, Min(5000, lastEvent.pos.x))

\* C9 as stated: a move for an id that is neither tracked nor local issues
\* a lookup, and the response to a lookup leaves the id in the registry, with
\* the player data of the response, or with a generated name at the position
\* of the move.
C9_NeverDropped ==
    [][/\ (/\ lastEvent'.type = "playerMoved"
           /\ ~lastEvent'.known
           /\ lastEvent'.id # LocalId)
          => \E req \in pendingLookups' :
                 req.id = lastEvent'.id /\ PosOf(req) = lastEvent'.pos
       /\ lastEvent'.type = "getPlayerData"
          => /\ lastEvent'.id \in DOMAIN playersRef'
             /\ LET after == meshes'[playersRef'[lastEvent'.id]]
                IN IF lastEvent'.found
                   THEN after.name \in Names
                   ELSE /\ after.name = <<"Player-", lastEvent'.id>>
                        /\ PosOf(after) = lastEvent'.pos]_vars

\* C10 as stated: a move with a non-finite x or z for a tracked id leaves
\* the position of the entity as it was, and stores no non-finite value.
C10_MalformedRejected ==
    [][(MovedKnown /\ (lastEvent'.pos.x = NaN \/ lastEvent'.pos.z = NaN)) =>
          LET m == meshes[playersRef[lastEvent'.id]]
              after == meshes'[playersRef[lastEvent'.id]]
          IN /\ PosOf(after) = PosOf(m)
             /\ after.x # NaN
             /\ after.z # NaN]_vars

-----------------------------------------------------------------------------
(* Properties of the sender *)

\* a step of sendPositionUpdate
SenderStep == pc = "send" /\ pc' = "move"

\* C2: any two move reports are emitted at least 100 ms apart, and no call
\* of the sender is suspended at its await with a report still to emit.
C2_ReportsApart ==
    /\ \A i \in DOMAIN reports : \A j \in DOMAIN reports :
           i < j => reports[j].time - reports[i].time >= 100
    /\ sendsInFlight = {}

\* two reports have been emitted
C2_Witness == Len(reports) >= 2

\* C3: a report is emitted only by a run of the sender that finds at least
\* 100 ms elapsed since lastSendTime and the position more than 0.01 from
\* lastSentPosition on x or on z (a difference of y does not count).
C3_EmitsOnlyThroughGates ==
    [][reports' # reports =>
          /\ SenderStep
          /\ now - lastSendTime >= 100
          /\ \/ playerRef.x - lastSentPosition.x > 1
             \/ lastSentPosition.x - playerRef.x > 1
             \/ playerRef.z - lastSentPosition.z > 1
             \/ lastSentPosition.z - playerRef.z > 1]_vars

\* the sender has just emitted a report
C3_Witness ==
    /\ reports # <<>>
    /\ lastEval.emitted
    /\ lastEval.time = now
    /\ reports[Len(reports)].time = now

\* a connected run of the sender on a set flag that emits nothing
GateClosed ==
    /\ SenderStep
    /\ isConnected
    /\ impl = "frontend" => socketReady
    /\ movementChanged
    /\ reports' = reports
    /\ sendsInFlight' = sendsInFlight

\* C4 as stated: a run of the sender that emits nothing because a gate is
\* closed leaves the flag set and lastSentPosition and lastSendTime unchanged.
C4_FlagPersists ==
    [][GateClosed =>
          /\ movementChanged'
          /\ lastSentPosition' = lastSentPosition
          /\ lastSendTime' = lastSendTime]_vars

\* C4 amended: such a run leaves lastSentPosition and lastSendTime
\* unchanged; it leaves the flag set if fewer than 100 ms have elapsed since
\* lastSendTime, and clears it if 100 ms have elapsed and the position is
\* within 0.01 of lastSentPosition.
C4_FlagPersistsWithinInterval ==
    [][GateClosed =>
          /\ lastSentPosition' = lastSentPosition
          /\ lastSendTime' = lastSendTime
          /\ movementChanged' <=> (now - lastSendTime < 100)]_vars

\* the sender has just cleared the flag without emitting: the interval had
\* elapsed, the position had not changed enough
C4_Witness ==
    /\ lastEval.time = now
    /\ pc = "move"
    /\ lastEval.connected
    /\ lastEval.changed
    /\ lastEval.timeGate
    /\ ~lastEval.deltaGate
    /\ ~movementChanged

-----------------------------------------------------------------------------
(* Properties of the integrators *)

\* C6: after every tick the local x and z are within the world bounds.
C6_LocalInBounds ==
    /\ -5000 <= playerRef.x /\ playerRef.x <= 5000
    /\ -5000 <= playerRef.z /\ playerRef.z <= 5000

-----------------------------------------------------------------------------
(* The registry after a roster snapshot *)

\* C11: after a roster snapshot is processed, the keys of the registry are
\* exactly the ids of the snapshot other than the local id: every such id
\* has an entry, and every entry whose id the snapshot lacks is gone.
C11_RegistryEqualsRoster ==
    [][lastEvent'.type = "initPlayers" =>
           DOMAIN playersRef' = lastEvent'.ids \ {LocalId}]_vars

\* C12: the local id is never a key of the registry, and no mesh of the
\* scene is a remote representation of the local id.
C12_LocalNeverTracked ==
    /\ LocalId \notin DOMAIN playersRef
    /\ \A o \in scene : meshes[o].playerId # LocalId

-----------------------------------------------------------------------------
(* Joins and leaves *)

\* C13: a joined event for an id other than the local one leaves exactly one
\* registry entry for the id, with the joined name and position, and one
\* mesh in the scene; an entry the id already had is discarded and a new one
\* made, never updated in place.
C13_JoinedRecreates ==
    [][(lastEvent'.type = "playerJoined" /\ lastEvent'.id # LocalId) =>
           LET id == lastEvent'.id
           IN /\ id \in DOMAIN playersRef'
              /\ {o \in scene' : meshes'[o].playerId = id} = {playersRef'[id]}
              /\ meshes'[playersRef'[id]].name \in Names
              /\ meshes'[playersRef'[id]].x = lastEvent'.pos.x
              /\ meshes'[playersRef'[id]].y = lastEvent'.pos.y
              /\ meshes'[playersRef'[id]].z = lastEvent'.pos.z
              /\ DOMAIN playersRef' = DOMAIN playersRef \cup {id}
              /\ lastEvent'.known => playersRef'[id] # playersRef[id]]_vars

\* C14: a left event for an id other than the local one removes the id from
\* the registry and its meshes from the scene, and leaves every other entry
\* and the local player as they were; a left event carrying the local id
\* changes nothing.
C14_LeftRemovesOnlyThatId ==
    [][lastEvent'.type = "playerLeft" =>
           LET id == lastEvent'.id
           IN IF id = LocalId
              THEN UNCHANGED <<playersRef, scene, meshes, playerRef>>
              ELSE /\ DOMAIN playersRef' = DOMAIN playersRef \ {id}
                   /\ \A o \in scene' : meshes'[o].playerId # id
                   /\ \A j \in DOMAIN playersRef' :
                          /\ playersRef'[j] = playersRef[j]
                          /\ meshes'[playersRef'[j]] = meshes[playersRef[j]]
                          /\ playersRef'[j] \in scene'
                   /\ playerRef' = playerRef]_vars

-----------------------------------------------------------------------------
(* The sync check *)

\* the positions of a list whose id the registry lacks
MissingAt(list) == {i \in 1..Len(list) : list[i] \notin DOMAIN playersRef}

\* C15: the sync check answers with exactly the ids of the list it was given
\* that are not keys of the registry, in the order of the list (for example
\* the list [a, b, c] against the registry {a} gives [b, c]).
C15_ReplyIsMissingInOrder ==
    lastEvent.type = "checkPlayersSync" =>
        LET list == lastEvent.list
            reply == lastEvent.reply
        IN /\ Len(reply) = Cardinality(MissingAt(list))
           /\ \A k \in 1..Len(reply) :
                  \E i \in MissingAt(list) :
                      /\ Cardinality({j \in MissingAt(list) : j < i}) = k - 1
                      /\ reply[k] = list[i]

C15_Witness ==
    /\ lastEvent.type = "checkPlayersSync"
    /\ lastEvent.list = <<"p1", "p2", "me">>
    /\ DOMAIN playersRef = {"p1"}
    /\ lastEvent.reply = <<"p2", "me">>

-----------------------------------------------------------------------------
(* The periodic cleanup pass *)

\* C16: immediately after a cleanup pass no id has more than one mesh in the
\* scene: the only mesh of a remote id is the one the registry tracks, and
\* no mesh of the scene is a second representation of the local id; the pass
\* removes no tracked mesh and leaves the local player's own mesh alone.
C16_OnlyTrackedRemain ==
    [][lastEvent'.type = "cleanup" =>
           /\ \A o \in scene' :
                  /\ meshes'[o].playerId # LocalId
                  /\ meshes'[o].playerId \in DOMAIN playersRef'
                  /\ playersRef'[meshes'[o].playerId] = o
           /\ playersRef' = playersRef
           /\ \A id \in DOMAIN playersRef :
                  /\ playersRef[id] \in scene => playersRef[id] \in scene'
                  /\ meshes'[playersRef[id]] = meshes[playersRef[id]]
           /\ playerRef' = playerRef]_vars

C16_Witness ==
    /\ lastEvent.type = "cleanup"
    /\ lastEvent.ids # {}
    /\ DOMAIN playersRef # {}
    /\ \A id \in DOMAIN playersRef : playersRef[id] \in scene

\* C17: immediately after a cleanup pass the registry has no entry for an id
\* that is no longer in the game: its keys are among the ids the server's
\* events say are present (and are as many).
C17_RegistryOnlyValid ==
    [][lastEvent'.type = "cleanup" =>
           DOMAIN playersRef' \subseteq lastEvent'.valid]_vars

-----------------------------------------------------------------------------
(* Properties of the anomaly guard *)

\* the latest sample's displacement from the previous one, and the ms apart
StepX == positionHistory[Len(positionHistory)].x
             - positionHistory[Len(positionHistory) - 1].x
StepZ == positionHistory[Len(positionHistory)].z
             - positionHistory[Len(positionHistory) - 1].z
StepTime == positionHistory[Len(positionHistory)].time
                - positionHistory[Len(positionHistory) - 1].time

-----------------------------------------------------------------------------
(* Properties of the position history *)

\* C20: the history never holds more than 5 samples; a sample appended to a
\* history of 5 evicts the oldest, and the samples that stay keep their order.
C20_HistoryBounded ==
    [][/\ Len(positionHistory') <= 5
       /\ positionHistory' # positionHistory =>
              LET n == Len(positionHistory)
              IN IF n < 5
                 THEN /\ Len(positionHistory') = n + 1
                      /\ \A i \in 1..n : positionHistory'[i] = positionHistory[i]
                 ELSE /\ Len(positionHistory') = 5
                      /\ \A i \in 1..4 : positionHistory'[i] = positionHistory[i + 1]
       /\ positionHistory' # positionHistory =>
              /\ positionHistory'[Len(positionHistory')].time = now'
              /\ positionHistory'[Len(positionHistory')].x = playerRef'.x
              /\ positionHistory'[Len(positionHistory')].z = playerRef'.z]_vars

\* a sixth and a seventh sample have been appended: the history holds the
\* five latest, from the third on
C20_Witness ==
    /\ Len(positionHistory) = 5
    /\ frame = 3
    /\ positionHistory[1] = Walk(4)[3]
    /\ positionHistory[2] = Walk(4)[4]
    /\ positionHistory[5].time = now
    /\ positionHistory[4].time < positionHistory[5].time

-----------------------------------------------------------------------------
(* Properties of the integrators: speed, jumps, zones *)

\* C21: whatever the keys held and the camera angle, the horizontal
\* displacement of one tick is no longer than the speed constant (0.15,
\* scaled by the frame's length where the integrator scales it): a diagonal
\* move covers no more distance than a move along one axis.
C21_StepWithinSpeed ==
    [][frame' = frame + 1 =>
           LET dx == playerRef'.x - playerRef.x
               dz == playerRef'.z - playerRef.z
               limit == IF impl = "legacy"
                        THEN (15 * (now' - now) * 60) \div 1000
                        ELSE 15
           IN dx * dx + dz * dz <= limit * limit]_vars

\* a tick of the hook in which no jump is attempted
TickWithoutAttempt ==
    \E keys \in JumpKeys : updatePlayerMovement_hook(keys, 0, FALSE, TickFrame)

\* C22: the jump has two transitions only.  A grounded player leaves the
\* ground only in a tick that attempts a jump, and that tick moves with the
\* jump force as vertical velocity; an airborne player, whether a jump is
\* attempted or not, either keeps flying under gravity or, when its height
\* would reach the ground level, lands on it with velocity 0.  After every
\* tick the height is at least the ground level, and a grounded player stands
\* on it with velocity 0.
C22_JumpMachine ==
    [][frame' = frame + 1 =>
           /\ ~isJumping /\ TickWithoutAttempt =>
                  /\ ~isJumping'
                  /\ playerRef'.y = playerRef.y
                  /\ jumpVelocity' = jumpVelocity
           /\ ~isJumping /\ isJumping' =>
                  /\ playerRef'.y = playerRef.y + 300
                  /\ jumpVelocity' = 300 - 15
           /\ isJumping =>
                  IF playerRef.y + jumpVelocity <= 1000
                  THEN ~isJumping' /\ playerRef'.y = 1000 /\ jumpVelocity' = 0
                  ELSE /\ isJumping'
                       /\ playerRef'.y = playerRef.y + jumpVelocity
                       /\ jumpVelocity' = jumpVelocity - 15
           /\ playerRef'.y >= 1000
           /\ ~isJumping' => playerRef'.y = 1000 /\ jumpVelocity' = 0]_vars

\* the player that was one tick from the ground 40 ticks into its jump has
\* landed in the first tick of the run and jumped again in the second
C22_Witness ==
    /\ impl = "hook"
    /\ frame = 2
    /\ now = StartTime + 42 * TickFrame
    /\ isJumping
    /\ playerRef.y = 1300
    /\ jumpVelocity = 285

\* the local player stands at (x, z), in units, and its zone has been computed
ZonedAt(x, z) ==
    pc = "zoned" /\ playerRef.x = x * 100 /\ playerRef.z = z * 100

\* C23: the zone of a point is the label of the first rule it matches, in
\* the order Barbarian Village (x < -10 and z < -10), Fishing Spot (x > 25
\* and z < 0), Grand Exchange (x > 0 and z > 25), Wilderness (|x| > 30 or
\* |z| > 30), Lumbridge otherwise, at every point of the world with whole
\* coordinates; (-20,-20) is in the Barbarian Village, (30,-10) at the Fishing
\* Spot, (5,30) in the Grand Exchange and (0,0) in Lumbridge.
C23_FirstMatchingRule ==
    pc = "zoned" =>
        LET x == playerRef.x
            z == playerRef.z
            abs(n) == IF n < 0 THEN -n ELSE n
            rules == << <<x < -1000 /\ z < -1000, "Barbarian Village">>,
                        <<x > 2500 /\ z < 0, "Fishing Spot">>,
                        <<x > 0 /\ z > 2500, "Grand Exchange">>,
                        <<abs(x) > 3000 \/ abs(z) > 3000, "Wilderness">>,
                        <<TRUE, "Lumbridge">> >>
            first == CHOOSE i \in 1..5 :
                         rules[i][1] /\ \A j \in 1..(i - 1) : ~rules[j][1]
        IN /\ currentZone = rules[first][2]
           /\ ZonedAt(-20, -20) => currentZone = "Barbarian Village"
           /\ ZonedAt(30, -10) => currentZone = "Fishing Spot"
           /\ ZonedAt(5, 30) => currentZone = "Grand Exchange"
           /\ ZonedAt(0, 0) => currentZone = "Lumbridge"

\* the zone of (30,-10), which lies beyond 25 east and north of the origin
\* line, has been computed as the Fishing Spot
C23_Witness == ZonedAt(30, -10) /\ currentZone = "Fishing Spot"

\* C24 as stated: the zone of (40,40) is the Wilderness.
C24_FarCornerIsWilderness == ZonedAt(40, 40) => currentZone = "Wilderness"

\* C24, amended: the zone of (40,40) is the Grand Exchange, whose rule
\* (x > 0 and z > 25) comes before the rule of the Wilderness.
C24_FarCornerIsGrandExchange ==
    ZonedAt(40, 40) => currentZone = "Grand Exchange"

\* the zone of (40,40) has been computed and given to setCurrentZone
C24_Witness == ZonedAt(40, 40) /\ zoneNotices = <<"Grand Exchange">>

-----------------------------------------------------------------------------
(* Properties of the zone notifications and of the order of a frame *)

C26_ZoneOfGuardedPosition ==
    [][/\ frame' = frame + 1 /\ positionHistory' # positionHistory =>
              currentZone' = updatePlayerZone(playerRef'.x, playerRef'.z)
       /\ pc = "send" /\ pc' = "move" =>
              lastEval'.changed =
                  ChangedEnough([x |-> playerRef.x, z |-> playerRef.z],
                                lastSentPosition)]_vars

-----------------------------------------------------------------------------
(* Properties of the teardown *)

\* C27: once the effect's cleanup has run, no interval the component set is
\* active, be it one set before the cleanup or one whose set-up was waiting
\* for the socket when the cleanup ran; the registry is empty and the position
\* history is empty.
C27_NothingLeftAfterTeardown ==
    ~mounted =>
        /\ timers = {}
        /\ playersRef = EmptyMap
        /\ positionHistory = <<>>

-----------------------------------------------------------------------------
(* Properties of what the sender records *)

\* C28: lastSendTime never decreases: no step stores in it a value smaller
\* than the one it replaces, and no call of the sender is suspended with a
\* time of its own to store.
C28_SendTimeMonotonic ==
    [][lastSendTime' >= lastSendTime /\ sendsInFlight' = {}]_vars

\* two reports have been emitted, and lastSendTime went from the time of the
\* first to the time of the second
C28_Witness ==
    /\ Len(reports) = 2
    /\ reports[1].time < reports[2].time
    /\ lastSendTime = reports[2].time

\* C29: every move report emitted carries x and z inside the world bounds.
C29_ReportsInBounds ==
    \A i \in DOMAIN reports :
        /\ -5000 <= reports[i].x /\ reports[i].x <= 5000
        /\ -5000 <= reports[i].z /\ reports[i].z <= 5000

\* a report emitted from the corner of the world, after a move that the
\* bounds stopped
C29_Witness ==
    /\ reports # <<>>
    /\ reports[Len(reports)].x = 5000
    /\ reports[Len(reports)].z = -5000

\* C30: the step that emits a report sets lastSentPosition to the position
\* the report carries and lastSendTime to the time the sender read before its
\* gates, and clears the flag; lastSentPosition is at all times the position
\* of the report emitted last, (0, 1, 0) before any.
C30_LastSentIsLastReport ==
    [][/\ reports' # reports =>
              /\ Len(reports') = Len(reports) + 1
              /\ lastSentPosition' = [x |-> reports'[Len(reports')].x,
                                      y |-> reports'[Len(reports')].y,
                                      z |-> reports'[Len(reports')].z]
              /\ lastSendTime' = now
              /\ lastEval'.time = now
              /\ reports'[Len(reports')].time = now
              /\ ~movementChanged'
       /\ lastSentPosition' =
              IF reports' = <<>> THEN [x |-> 0, y |-> 1000, z |-> 0]
              ELSE [x |-> reports'[Len(reports')].x,
                    y |-> reports'[Len(reports')].y,
                    z |-> reports'[Len(reports')].z]]_vars

\* a second report has just been emitted, from another place than the first
C30_Witness ==
    /\ Len(reports) = 2
    /\ lastEval.emitted
    /\ reports[2].x # reports[1].x
    /\ lastSentPosition.x = reports[2].x
    /\ ~movementChanged

-----------------------------------------------------------------------------
(* Liveness of the sender *)

\* the frame loop under the throttle with frames and sender runs that keep
\* coming: requestAnimationFrame(animate) is asked for at the top of every
\* frame, and the frame calls updatePlayerMovement and sendPositionUpdate
SpecLive ==
    /\ SpecThrottle
    /\ WF_vars(\E keys \in ThrottleKeys : \E dt \in ThrottleFrames :
                   updatePlayerMovement_legacy(keys, dt))
    /\ WF_vars(sendPositionUpdate_legacy)

\* between two frames, the flag is still set for a position that differs from
\* the one sent last, the component is connected, and a frame is to come
PendingReport ==
    /\ impl = "legacy"
    /\ pc = "move"
    /\ frame < MaxFrames
    /\ isConnected
    /\ movementChanged
    /\ ChangedEnough(playerRef, lastSentPosition)

\* the last report emitted carries the local position
Flushed ==
    /\ reports # <<>>
    /\ reports[Len(reports)].x = playerRef.x
    /\ reports[Len(reports)].z = playerRef.z
    /\ lastSentPosition.x = playerRef.x
    /\ lastSentPosition.z = playerRef.z

\* the frame being run has moved the local player
JustMoved ==
    /\ pc = "send"
    /\ positionHistory # <<>>
    /\ positionHistory[Len(positionHistory)].time = now

\* C31: when the local player has stopped at a position more than 0.01 from
\* the one sent last, with the flag set and the component connected, a report
\* that carries that position is eventually emitted without any further
\* move, unless the player moves again or the connection is lost first.
C31_PendingReportFlushed ==
    PendingReport ~> (Flushed \/ JustMoved \/ ~isConnected)

\* the second report, emitted in a frame that did not move, for a move made
\* less than 100 ms after the first report
C31_Witness ==
    /\ Len(reports) = 2
    /\ lastEval.emitted
    /\ lastEval.time = now
    /\ Flushed
    /\ positionHistory[Len(positionHistory)].time < now
    /\ positionHistory[Len(positionHistory)].time - reports[1].time < 100
    /\ reports[1].x # reports[2].x

-----------------------------------------------------------------------------
(* Properties of the registry as the record of the remote players *)

\* C32: in every state the ids that have a mesh in the scene are the keys of
\* the registry: every entry of the registry is a mesh of the scene that
\* carries the entry's id, and every player mesh of the scene is the mesh an
\* entry holds, also right after a reconnect.
C32_RegistryIsTheLiveSet ==
    /\ {meshes[o].playerId : o \in scene} = DOMAIN playersRef
    /\ \A id \in DOMAIN playersRef :
           playersRef[id] \in scene /\ meshes[playersRef[id]].playerId = id
    /\ \A o \in scene : playersRef[meshes[o].playerId] = o

\* C33: once playerLeft has been processed for an id, the id is absent from
\* the registry until a join or a roster names it, or a move that comes after
\* the departure asks for it: the answer to a lookup that a move asked for
\* before the departure does not bring the id back.
C33_LeftStaysAbsent ==
    [][(/\ lastEvent.type = "playerLeft"
        /\ lastEvent.id \notin DOMAIN playersRef
        /\ lastEvent.id \in DOMAIN playersRef')
           => lastEvent'.type \in {"playerJoined", "initPlayers"}]_vars

-----------------------------------------------------------------------------
(* C34: the turn of the local entity towards its heading *)

TurnTicks == 4
TurnKeys == {{}, {"w", "d"}, {"w", "a"}, {"a"}}

RECURSIVE Turned(_)
\* the yaw of the hook's player after k ticks of forward and right held
\* together under a camera at angle 0, from yaw 0
Turned(k) ==
    IF k = 0 THEN 0
    ELSE LET step == rotationStep(normalizedDiff(Atan2(1, -1) - Turned(k - 1)))
         IN IF Abs(step) > 1 THEN Turned(k - 1) + step ELSE Turned(k - 1)

\* the frontend's player as mounted, and the hook's player k ticks into that
\* walk from the origin
InitTurn ==
    \E k \in 0..TurnTicks :
        /\ impl \in {"hook", "frontend"}
        /\ impl = "frontend" => k = 0
        /\ playersRef = EmptyMap
        /\ scene = {}
        /\ meshes = EmptyMap
        /\ playerRef = [playerId |-> NoId, x |-> Origin.x + k * MOVEMENT_SPEED,
                        y |-> Origin.y, z |-> Origin.z - k * MOVEMENT_SPEED,
                        rotation |-> Turned(k)]
        /\ pendingLookups = {}
        /\ isConnected = FALSE
        /\ lastEvent = [type |-> "mount", id |-> NoId, pos |-> NoPos,
                        found |-> FALSE, ids |-> {}, known |-> FALSE,
                        list |-> <<>>, reply |-> <<>>, valid |-> {}]
        /\ now = StartTime + k * TickFrame
        /\ frame = 0
        /\ pc = "move"
        /\ lastSentPosition = Pos(0, 1000, 0)
        /\ lastSendTime = 0
        /\ movementChanged = (k > 0)
        /\ positionHistory = <<>>
        /\ currentZone = "Lumbridge"
        /\ zoneNotices = <<>>
        /\ mounted = TRUE
        /\ setupPending = FALSE
        /\ timers = Started(impl)
        /\ socketReady = FALSE
        /\ sendsInFlight = {}
        /\ reports = <<>>
        /\ lastEval = Eval(0, FALSE, FALSE, FALSE, FALSE, FALSE)
        /\ isJumping = FALSE
        /\ jumpVelocity = 0

NextTurn ==
    \/ \E keys \in TurnKeys : \E angle \in CameraAngles :
          updatePlayerMovement_hook(keys, angle, FALSE, TickFrame)
    \/ \E keys \in TurnKeys : \E angle \in CameraAngles :
          updatePlayerMovement(keys, angle, TickFrame)
    \/ sendPositionUpdate

SpecTurn == InitTurn /\ [][NextTurn]_vars

\* the angles within [-PI, PI] that differ from d by whole turns
WithinHalfTurn(d) ==
    {d + n * (PI * 2) : n \in -1..1} \cap (-PI..PI)

\* a tick of an integrator that turns the entity, ending off the border, so
\* that the displacement has the direction of the raw movement
TurningTick ==
    /\ impl \in {"hook", "frontend"}
    /\ frame' = frame + 1
    /\ Abs(playerRef'.x) < maxX
    /\ Abs(playerRef'.z) < maxZ

\* C34: in a tick that moves the local entity horizontally the yaw advances
\* by 0.15 of the difference between the heading and the yaw, that difference
\* taken within [-PI, PI], when the step exceeds 0.001 rad, and stays as it
\* is otherwise; it is never set to the heading at once.
C34_YawTurnsByFraction ==
    [][TurningTick =>
          LET dx == playerRef'.x - playerRef.x
              dz == playerRef'.z - playerRef.z
          IN IF dx = 0 /\ dz = 0
             THEN playerRef'.rotation = playerRef.rotation
             ELSE \E diff \in WithinHalfTurn(Atan2(dx, dz) - playerRef.rotation) :
                     playerRef'.rotation =
                         IF Abs(rotationStep(diff)) > 1
                         THEN playerRef.rotation + rotationStep(diff)
                         ELSE playerRef.rotation]_vars

-----------------------------------------------------------------------------
(* C35: the jump of the hook ends *)

\* the ticks an airborne player has left before it is on the ground again,
\* read from its vertical speed
TicksToLand(velocity) == (velocity + JUMP_FORCE) \div GRAVITY + 1

\* C35: every jump terminates. An airborne player has between 1 and
\* 2 * JUMP_FORCE / GRAVITY ticks left, and every tick, whatever the keys held
\* and whether a jump is attempted or not, takes one off that number; the tick
\* that takes the last one puts the player on the ground, at rest.
C35_JumpLands ==
    [][/\ isJumping' => TicksToLand(jumpVelocity') \in 1..((2 * JUMP_FORCE) \div GRAVITY)
       /\ isJumping /\ frame' = frame + 1 =>
             IF TicksToLand(jumpVelocity) = 1
             THEN ~isJumping' /\ playerRef'.y = PLAYER_DEFAULT_Y /\ jumpVelocity' = 0
             ELSE isJumping' /\ TicksToLand(jumpVelocity') = TicksToLand(jumpVelocity) - 1]_vars

\* a player that was 39 ticks into its jump has landed in the second tick of
\* the run, 41 ticks after taking off, without moving sideways
C35_Witness ==
    /\ impl = "hook"
    /\ frame = 2
    /\ now = StartTime + 41 * TickFrame
    /\ ~isJumping
    /\ movementChanged
    /\ playerRef = [playerId |-> NoId, x |-> Origin.x, y |-> PLAYER_DEFAULT_Y,
                    z |-> Origin.z, rotation |-> 0]

-----------------------------------------------------------------------------
(* The smoothing of a remote player: p1 joins somewhere and moves for one    *)
(* target keep arriving for it.  The starts and the targets are 32 or 96     *)
(* units apart on each axis, so that every midpoint on the way is a value of *)
(* the model                                                                 *)

SmoothStarts == {Pos(x, 1000, z) : x, z \in {-4800, 1600}}
SmoothTargets == {Pos(x, 1000, z) : x, z \in {-1600, 4800}}

InitSmooth == Mounted({"frontend", "legacy"}, {Origin})

\* the moves of a run carry the target of the first of them
SameTarget(data) == lastEvent.type = "playerMoved" => data = lastEvent.pos

NextSmooth ==
    \/ \E player \in PlayersOf([i \in RemoteIds |-> SmoothStarts], "p1") :
          "p1" \notin DOMAIN playersRef /\ playerJoined(player)
    \/ \E player \in PlayersOf([i \in RemoteIds |-> SmoothStarts], "p1") :
          "p1" \notin DOMAIN playersRef /\ playerJoined_legacy(player)
    \/ \E data \in SmoothTargets :
          "p1" \in DOMAIN playersRef /\ SameTarget(data) /\ playerMoved("p1", data)
    \/ \E data \in SmoothTargets :
          "p1" \in DOMAIN playersRef /\ SameTarget(data) /\ playerMoved_legacy("p1", data)

SpecSmooth == InitSmooth /\ [][NextSmooth]_vars

MaxHalvings == 5

\* the moves for the target t that bring the mesh m onto it: one when m is
\* within 5 units of t, and one more for every doubling of 5 units that the
\* distance exceeds
EventsToGo(m, t) ==
    IF m.x = t.x /\ m.z = t.z THEN 0
    ELSE 1 + Cardinality({k \in 0..(MaxHalvings - 1) :
                             DistanceExceeds(m.x, m.z, t.x, t.z, 500 * 2^k)})

\* C36: a move for a tracked id with a target inside the bounds takes one off
\* the number of moves that bring the mesh onto that target, which is at most
\* 6 for a mesh inside the bounds: a move from more than 5 units away halves
\* the offset on x and on z, any other move puts x and z on the target.
C36_SmoothingConverges ==
    [][LET id == lastEvent'.id
           t == lastEvent'.pos
       IN (/\ lastEvent'.type = "playerMoved"
           /\ lastEvent'.known
           /\ impl = "frontend" => id # LocalId
           /\ t.x \in minX..maxX
           /\ t.z \in minZ..maxZ) =>
              LET m == meshes[playersRef[id]]
                  moved == meshes'[playersRef'[id]]
              IN /\ EventsToGo(moved, t) = Max(EventsToGo(m, t) - 1, 0)
                 /\ (m.x \in minX..maxX /\ m.z \in minZ..maxZ) => EventsToGo(m, t) <= 6
                 /\ IF DistanceExceeds(t.x, t.z, m.x, m.z, 500)
                    THEN /\ 2 * (moved.x - t.x) = m.x - t.x
                         /\ 2 * (moved.z - t.z) = m.z - t.z
                    ELSE moved.x = t.x /\ moved.z = t.z]_vars

\* a player that joined 32 units or more from the target on both axes is on
\* it after the moves for that target
C36_Witness ==
    /\ lastEvent.type = "playerMoved"
    /\ lastEvent.known
    /\ lastEvent.pos = Pos(4800, 1000, 4800)
    /\ meshes[playersRef[lastEvent.id]].x = 4800
    /\ meshes[playersRef[lastEvent.id]].z = 4800

-----------------------------------------------------------------------------
(* C37, C38: events that change nothing *)

\* C37: a move event that carries the local id changes nothing: the local
\* player, the registry, the scene and its meshes stay as they are, and no
\* lookup is requested.
C37_OwnMoveIgnored ==
    [][lastEvent'.type = "playerMoved" /\ lastEvent'.id = LocalId
          => UNCHANGED <<playerRef, playersRef, scene, meshes, pendingLookups>>]_vars

\* C38: the sync check reads and does not write: the registry, the scene, the
\* meshes with their positions and the local player are after it what they
\* were before it, whatever the list.
C38_SyncCheckReadOnly ==
    [][lastEvent'.type = "checkPlayersSync"
          => UNCHANGED <<playersRef, scene, meshes, playerRef, pendingLookups>>]_vars

\* a sync check has been answered with a missing id while a player the list
\* does not name is tracked
C38_Witness ==
    /\ lastEvent.type = "checkPlayersSync"
    /\ lastEvent.reply # <<>>
    /\ \E id \in DOMAIN playersRef :
          /\ \A i \in DOMAIN lastEvent.list : lastEvent.list[i] # id
          /\ playersRef[id] \in scene

-----------------------------------------------------------------------------
(* Ticks with opposite keys held and no other: the hook's player part way    *)
(* through a turn or a jump, the players of the components as mounted, at    *)
(* the origin or next to a corner                                            *)

OpposedKeys == {{"w", "s"}, {"a", "d"}, {"w", "s", "a", "d"}}

InitOpposed ==
    \/ InitTurn
    \/ InitJump
    \/ Mounted({"frontend", "legacy"}, {Origin, NearCorner})

NextOpposed ==
    \/ \E keys \in OpposedKeys : \E angle \in CameraAngles :
          \E attemptJump \in BOOLEAN :
              updatePlayerMovement_hook(keys, angle, attemptJump, TickFrame)
    \/ \E keys \in OpposedKeys : \E angle \in CameraAngles : \E dt \in MoveFrames :
          updatePlayerMovement(keys, angle, dt)
    \/ sendPositionUpdate
    \/ \E keys \in OpposedKeys : \E dt \in MoveFrames :
          updatePlayerMovement_legacy(keys, dt)
    \/ sendPositionUpdate_legacy

SpecOpposed == InitOpposed /\ [][NextOpposed]_vars

\* C39: a tick in which only opposite keys are held (forward with backward,
\* left with right, or both pairs) changes neither x, z nor the yaw of the
\* local player, and does not mark the position as changed for horizontal
\* movement: the flag of the components stays as it was, and the hook's
\* movementOccurred is set exactly when the player is in the air in the tick.
C39_OpposedIntentsCancel ==
    [][frame' = frame + 1 =>
          /\ playerRef'.x = playerRef.x
          /\ playerRef'.z = playerRef.z
          /\ playerRef'.rotation = playerRef.rotation
          /\ movementChanged' = IF impl = "hook" THEN isJumping \/ isJumping'
                                ELSE movementChanged]_vars

\* the hook's player, four ticks into a turn, has stood through a tick with
\* opposite keys held: it is where it was, turned as it was, and
\* movementOccurred is false
C39_Witness ==
    /\ impl = "hook"
    /\ frame = 1
    /\ now = StartTime + (TurnTicks + 1) * TickFrame
    /\ playerRef.x = Origin.x + TurnTicks * MOVEMENT_SPEED
    /\ playerRef.rotation = Turned(TurnTicks)
    /\ playerRef.rotation # 0
    /\ ~movementChanged

====
